---- MODULE Spec2Model ----
(***************************************************************************)
(* Student Finance Tracker: the in-memory state container (state.js), its  *)
(* localStorage write-through (storage.js), the import validator           *)
(* (validators.js), the search engine (search.js) and the UI handlers that *)
(* feed them (ui.js).                                                      *)
(*                                                                         *)
(* Conventions.                                                            *)
(*  - A JavaScript string whose characters matter (description, category,  *)
(*    date, a number typed in an input, a search pattern) is a sequence of *)
(*    one-character strings; an id is an atomic string built by \o.        *)
(*  - A JavaScript number is an integer count of hundredths (10.5 is 1050).*)
(*  - A timestamp is an instant of the clock `now`; 0 is a missing or      *)
(*    falsy timestamp of an imported record.                               *)
(***************************************************************************)
EXTENDS Integers, Sequences, FiniteSets, TLC

VARIABLES
    started,            \* startApp has run on this page load
    now,                \* the clock read by new Date() / Date.now()
    state,              \* the exported `state` object of state.js
    defaultCategories,  \* the DEFAULT_CATEGORIES array object of storage.js
    categoriesAliased,  \* state.categories IS the DEFAULT_CATEGORIES array object
    localStorage,       \* the four keys of window.localStorage
    dom,                \* the form controls the handlers read: the search box
    writeFailures,      \* how many localStorage.setItem calls have thrown so far
    lastOp              \* the last operation that ran, its argument and its result

vars == <<started, now, state, defaultCategories, categoriesAliased,
          localStorage, dom, writeFailures, lastOp>>

\* ------------------------------------------------------------ bounds
MaxTxns == 2
MaxTime == 2
MaxWriteFailures == 1
MaxAmountLen == 4
\* Timeouts of the Clear All Data button that may be pending at once
MaxTimers == 2

\* ------------------------------------------------------------ strings
Food == <<"F", "o", "o", "d">>
Books == <<"B", "o", "o", "k", "s">>
Transport == <<"T", "r", "a", "n", "s", "p", "o", "r", "t">>
Entertainment == <<"E", "n", "t", "e", "r", "t", "a", "i", "n", "m", "e", "n", "t">>
Fees == <<"F", "e", "e", "s">>
Other == <<"O", "t", "h", "e", "r">>
Gym == <<"G", "y", "m">>

DigitChars == <<"0", "1", "2", "3", "4", "5", "6", "7", "8", "9">>
IsDigit(c) == \E i \in 1..10 : DigitChars[i] = c
DigitValue(c) == (CHOOSE i \in 1..10 : DigitChars[i] = c) - 1
IsSpace(c) == c \in {" ", "\t", "\n"}

\* String.prototype.trim
RECURSIVE TrimStart(_)
TrimStart(s) == IF s # <<>> /\ IsSpace(Head(s)) THEN TrimStart(Tail(s)) ELSE s
RECURSIVE TrimEnd(_)
TrimEnd(s) ==
    IF s # <<>> /\ IsSpace(s[Len(s)]) THEN TrimEnd(SubSeq(s, 1, Len(s) - 1)) ELSE s
Trim(s) == TrimEnd(TrimStart(s))

\* Array.prototype.indexOf, 1-based; 0 when absent (JavaScript's -1)
IndexOf(seq, x) ==
    IF \E i \in 1..Len(seq) : seq[i] = x
    THEN CHOOSE i \in 1..Len(seq) : seq[i] = x /\ \A j \in 1..(i - 1) : seq[j] # x
    ELSE 0
Includes(seq, x) == \E i \in 1..Len(seq) : seq[i] = x
\* Array.prototype.splice(index, 1)
Splice1(seq, i) == SubSeq(seq, 1, i - 1) \o SubSeq(seq, i + 1, Len(seq))

\* ------------------------------------------------------------ numbers
RECURSIVE NatToString(_)
NatToString(n) ==
    IF n < 10 THEN <<DigitChars[n + 1]>>
    ELSE NatToString(n \div 10) \o <<DigitChars[(n % 10) + 1]>>

\* String(number) for a number of at most two decimals, held in hundredths
NumberToString(c) ==
    LET a == IF c < 0 THEN 0 - c ELSE c
        whole == NatToString(a \div 100)
        frac == a % 100
        body == IF frac = 0 THEN whole
                ELSE IF frac % 10 = 0 THEN whole \o <<".", DigitChars[(frac \div 10) + 1]>>
                ELSE whole \o <<".", DigitChars[(frac \div 10) + 1], DigitChars[(frac % 10) + 1]>>
    IN  IF c < 0 THEN <<"-">> \o body ELSE body

RECURSIVE DigitRun(_)
DigitRun(s) == IF s # <<>> /\ IsDigit(Head(s)) THEN <<Head(s)>> \o DigitRun(Tail(s)) ELSE <<>>
RECURSIVE DigitsToNat(_)
DigitsToNat(d) ==
    IF d = <<>> THEN 0 ELSE DigitsToNat(SubSeq(d, 1, Len(d) - 1)) * 10 + DigitValue(d[Len(d)])

\* parseFloat: leading whitespace skipped, optional sign, the longest numeric
\* prefix is read, NaN when there is none. The result is [nan, v] with v in
\* hundredths; fractional digits after the second do not fit the unit and are
\* dropped (no input of the model has more than two).
ParseFloat(text) ==
    LET s0 == TrimStart(text)
        neg == s0 # <<>> /\ Head(s0) = "-"
        s1 == IF s0 # <<>> /\ Head(s0) \in {"-", "+"} THEN Tail(s0) ELSE s0
        ip == DigitRun(s1)
        rest == SubSeq(s1, Len(ip) + 1, Len(s1))
        fp == IF rest # <<>> /\ Head(rest) = "." THEN DigitRun(Tail(rest)) ELSE <<>>
        f2 == IF Len(fp) = 0 THEN 0
              ELSE IF Len(fp) = 1 THEN DigitValue(fp[1]) * 10
              ELSE DigitValue(fp[1]) * 10 + DigitValue(fp[2])
        mag == DigitsToNat(ip) * 100 + f2
    IN  IF ip = <<>> /\ fp = <<>> THEN [nan |-> TRUE, v |-> 0]
        ELSE [nan |-> FALSE, v |-> IF neg THEN 0 - mag ELSE mag]

\* ------------------------------------------------------------ dates
\* The Date object keeps a time value; its date is a count of days from
\* 1970-01-01 (MakeDay, and YearFromTime / MonthFromTime / DateFromTime of the
\* language, proleptic Gregorian calendar).
DaysFromCivil(y, m, d) ==
    LET yy == IF m <= 2 THEN y - 1 ELSE y
        era == yy \div 400
        yoe == yy - era * 400
        mp == IF m > 2 THEN m - 3 ELSE m + 9
        doy == (153 * mp + 2) \div 5 + d - 1
        doe == yoe * 365 + yoe \div 4 - yoe \div 100 + doy
    IN  era * 146097 + doe - 719468

CivilFromDays(days) ==
    LET z == days + 719468
        era == z \div 146097
        doe == z - era * 146097
        yoe == (doe - doe \div 1460 + doe \div 36524 - doe \div 146096) \div 365
        doy == doe - (365 * yoe + yoe \div 4 - yoe \div 100)
        mp == (5 * doy + 2) \div 153
        d == doy - (153 * mp + 2) \div 5 + 1
        m == IF mp < 10 THEN mp + 3 ELSE mp - 9
        y == yoe + era * 400 + (IF m <= 2 THEN 1 ELSE 0)
    IN  [year |-> y, month |-> m, day |-> d]

\* new Date(year, monthIndex, day): a year from 0 to 99 stands for 1900 + year;
\* a day past the end of the month runs into the next month. The result is the
\* local calendar date that getFullYear / getMonth / getDate then read.
NewDate(year, monthIndex, day) ==
    LET fullYear == IF year >= 0 /\ year <= 99 THEN 1900 + year ELSE year
    IN  CivilFromDays(DaysFromCivil(fullYear, monthIndex + 1, 1) + day - 1)

\* Date.parse of a text that REGEX_PATTERNS.date accepts, as [nan, hours]: UTC
\* midnight of the date. For a day the month does not have (02-30) the engine
\* decides: one takes any day up to 31 and runs into the next month, another
\* gives NaN.
Engines == {"rolls over", "NaN"}
DateParse(text, engine) ==
    LET year == DigitsToNat(SubSeq(text, 1, 4))
        month == DigitsToNat(SubSeq(text, 6, 7))
        day == DigitsToNat(SubSeq(text, 9, 10))
        days == DaysFromCivil(year, month, 1) + day - 1
        real == CivilFromDays(days) = [year |-> year, month |-> month, day |-> day]
    IN  IF ~real /\ engine = "NaN" THEN [nan |-> TRUE, hours |-> 0]
        ELSE [nan |-> FALSE, hours |-> days * 24]

\* ------------------------------------------------------------ storage.js
DEFAULT_CATEGORIES == <<Food, Books, Transport, Entertainment, Fees, Other>>

\* A conversion rate: a number in hundredths, NaN (parseFloat of an empty
\* field) or null (what JSON makes of NaN).
Num(v) == [k |-> "num", v |-> v]
NaN == [k |-> "NaN", v |-> 0]
Null == [k |-> "null", v |-> 0]

DEFAULT_SETTINGS ==
    [baseCurrency |-> "USD", rates |-> [USD |-> Num(100), EUR |-> Num(92), GBP |-> Num(79)]]

\* JSON.stringify then JSON.parse of one number: NaN is written as null
JSONNumber(r) == IF r.k = "NaN" THEN Null ELSE r
JSONSettings(s) ==
    [baseCurrency |-> s.baseCurrency,
     rates |-> [USD |-> JSONNumber(s.rates.USD),
                EUR |-> JSONNumber(s.rates.EUR),
                GBP |-> JSONNumber(s.rates.GBP)]]

\* localStorage.getItem gives null for a key never set: an item is [has, val]
NoItem(empty) == [has |-> FALSE, val |-> empty]
Item(v) == [has |-> TRUE, val |-> v]

EmptyStorage ==
    [transactions |-> NoItem(<<>>),
     settings |-> NoItem(DEFAULT_SETTINGS),
     categories |-> NoItem(<<>>),
     budgetCap |-> NoItem(<<>>)]

\* `if (saved)`: the stored text is truthy when it is a non-empty string
loadTransactions(ls) == IF ls.transactions.has THEN ls.transactions.val ELSE <<>>
loadSettings(ls) == IF ls.settings.has THEN ls.settings.val ELSE DEFAULT_SETTINGS
\* loadCategories returns the DEFAULT_CATEGORIES array object itself, in the
\* state the session has left it in
loadCategories(ls, defaults) == IF ls.categories.has THEN ls.categories.val ELSE defaults
loadCategoriesIsDefault(ls) == ~ls.categories.has
loadBudgetCap(ls) ==
    IF ls.budgetCap.has /\ ls.budgetCap.val # <<>>
    THEN ParseFloat(ls.budgetCap.val).v
    ELSE 0

\* save*: setItem either stores the text or throws (quota), which leaves the
\* key as it was; `failing` is the set of keys whose setItem throws
saveTransactions(ls, transactions, failing) ==
    IF "transactions" \in failing THEN ls
    ELSE [ls EXCEPT !.transactions = Item(transactions)]
saveSettings(ls, settings, failing) ==
    IF "settings" \in failing THEN ls
    ELSE [ls EXCEPT !.settings = Item(JSONSettings(settings))]
saveCategories(ls, categories, failing) ==
    IF "categories" \in failing THEN ls
    ELSE [ls EXCEPT !.categories = Item(categories)]
saveBudgetCap(ls, cap, failing) ==
    IF "budgetCap" \in failing THEN ls
    ELSE [ls EXCEPT !.budgetCap = Item(NumberToString(cap))]

storageClearAllData(ls) == EmptyStorage

\* ------------------------------------------------------------ search.js
\* The patterns of the model are written with letters, digits, the space, "-",
\* the wildcard ".", the quantifier "+" and the group opener "(". new RegExp
\* throws a SyntaxError on a "+" with nothing to repeat (first, or after
\* another "+") and on a "(" that is never closed (no ")" can be typed).
SyntaxError(source) ==
    \E i \in 1..Len(source) :
        \/ source[i] = "("
        \/ source[i] = "+" /\ (i = 1 \/ source[i - 1] = "+")

\* A compiled RegExp, or null
NullRegex == [isNull |-> TRUE, source |-> <<>>, flags |-> ""]
RegExp(source, flags) == [isNull |-> FALSE, source |-> source, flags |-> flags]

compileRegex(input, caseSensitive) ==
    IF input = <<>> \/ Trim(input) = <<>> THEN NullRegex
    ELSE IF SyntaxError(input) THEN NullRegex
    ELSE RegExp(input, IF caseSensitive THEN "" ELSE "i")

UpperLetters == <<"A", "B", "C", "D", "E", "F", "G", "H", "I", "J", "K", "L", "M",
                  "N", "O", "P", "Q", "R", "S", "T", "U", "V", "W", "X", "Y", "Z">>
LowerLetters == <<"a", "b", "c", "d", "e", "f", "g", "h", "i", "j", "k", "l", "m",
                  "n", "o", "p", "q", "r", "s", "t", "u", "v", "w", "x", "y", "z">>
ToLower(c) ==
    IF \E i \in 1..26 : UpperLetters[i] = c
    THEN LowerLetters[CHOOSE i \in 1..26 : UpperLetters[i] = c]
    ELSE c

\* The atoms of a pattern, each with whether "+" follows it
RECURSIVE Atoms(_)
Atoms(source) ==
    IF source = <<>> THEN <<>>
    ELSE IF Len(source) >= 2 /\ source[2] = "+"
         THEN <<[c |-> source[1], plus |-> TRUE]>> \o Atoms(SubSeq(source, 3, Len(source)))
         ELSE <<[c |-> source[1], plus |-> FALSE]>> \o Atoms(Tail(source))

AtomMatches(atom, ch, ignoreCase) ==
    \/ atom = "." /\ ch # "\n"
    \/ atom # "." /\ IF ignoreCase THEN ToLower(atom) = ToLower(ch) ELSE atom = ch

\* atoms[k..] match text from position pos on
RECURSIVE MatchAt(_, _, _, _, _)
MatchAt(atoms, k, text, pos, ignoreCase) ==
    IF k > Len(atoms) THEN TRUE
    ELSE IF pos > Len(text) THEN FALSE
    ELSE IF ~AtomMatches(atoms[k].c, text[pos], ignoreCase) THEN FALSE
    ELSE IF atoms[k].plus
         THEN \/ MatchAt(atoms, k, text, pos + 1, ignoreCase)
              \/ MatchAt(atoms, k + 1, text, pos + 1, ignoreCase)
         ELSE MatchAt(atoms, k + 1, text, pos + 1, ignoreCase)

\* RegExp.prototype.test without the g flag: a match starting anywhere
RegexTest(regex, text) ==
    \E pos \in 1..(Len(text) + 1) :
        MatchAt(Atoms(regex.source), 1, text, pos, regex.flags = "i")

\* searchTransactions that leaves the date out of the fields it tests
searchTransactionsNoDate(transactions, searchRegex) ==
    LET Matches(txn) ==
            \/ RegexTest(searchRegex, txn.description)
            \/ RegexTest(searchRegex, NumberToString(txn.amount))
            \/ RegexTest(searchRegex, txn.category)
    IN  IF searchRegex.isNull THEN transactions
        ELSE SelectSeq(transactions, Matches)

searchTransactions(transactions, searchRegex) ==
    LET Matches(txn) ==
            \/ RegexTest(searchRegex, txn.description)
            \/ RegexTest(searchRegex, NumberToString(txn.amount))
            \/ RegexTest(searchRegex, txn.category)
            \/ RegexTest(searchRegex, txn.date)
    IN  IF searchRegex.isNull THEN transactions
        ELSE SelectSeq(transactions, Matches)

\* filterByCategory that filters on the empty category too
filterByCategoryAlways(transactions, category) ==
    LET InCategory(txn) == txn.category = category
    IN  SelectSeq(transactions, InCategory)

filterByCategory(transactions, category) ==
    LET InCategory(txn) == txn.category = category
    IN  IF category = <<>> THEN transactions
        ELSE SelectSeq(transactions, InCategory)

\* String.prototype.localeCompare over the characters of the model: the space
\* and punctuation before the digits before the letters, a letter's case
\* looked at only when nothing else tells the strings apart (lower case first)
CollationOrder ==
    <<" ", "-", ".", "0", "1", "2", "3", "4", "5", "6", "7", "8", "9">> \o LowerLetters
CollationWeight(c) ==
    IF \E i \in 1..Len(CollationOrder) : CollationOrder[i] = ToLower(c)
    THEN CHOOSE i \in 1..Len(CollationOrder) : CollationOrder[i] = ToLower(c)
    ELSE 0
RECURSIVE CompareWeights(_, _)
CompareWeights(a, b) ==
    IF a = <<>> THEN (IF b = <<>> THEN 0 ELSE -1)
    ELSE IF b = <<>> THEN 1
    ELSE IF CollationWeight(Head(a)) < CollationWeight(Head(b)) THEN -1
    ELSE IF CollationWeight(Head(a)) > CollationWeight(Head(b)) THEN 1
    ELSE CompareWeights(Tail(a), Tail(b))
RECURSIVE CompareCase(_, _)
CompareCase(a, b) ==
    IF a = <<>> \/ b = <<>> THEN 0
    ELSE IF Head(a) = Head(b) THEN CompareCase(Tail(a), Tail(b))
    ELSE IF Head(a) = ToLower(Head(a)) THEN -1
    ELSE 1
localeCompare(a, b) ==
    IF CompareWeights(a, b) # 0 THEN CompareWeights(a, b) ELSE CompareCase(a, b)

\* The six comparison functions of sortTransactions, as [nan, value]: the
\* difference of two Dates is NaN when either is an Invalid Date. a and b are
\* records with the time their date parses to (WithTime).
SortKeys == {"date-desc", "date-asc", "desc-asc", "desc-desc", "amount-desc", "amount-asc"}
CompareFn(sortBy, a, b) ==
    IF sortBy = "date-desc"
    THEN [nan |-> a.time.nan \/ b.time.nan, value |-> b.time.hours - a.time.hours]
    ELSE IF sortBy = "date-asc"
    THEN [nan |-> a.time.nan \/ b.time.nan, value |-> a.time.hours - b.time.hours]
    ELSE IF sortBy = "desc-asc"
    THEN [nan |-> FALSE, value |-> localeCompare(a.txn.description, b.txn.description)]
    ELSE IF sortBy = "desc-desc"
    THEN [nan |-> FALSE, value |-> localeCompare(b.txn.description, a.txn.description)]
    ELSE IF sortBy = "amount-desc"
    THEN [nan |-> FALSE, value |-> b.txn.amount - a.txn.amount]
    ELSE [nan |-> FALSE, value |-> a.txn.amount - b.txn.amount]

\* new Date(txn.date) for each record of the array (the two date keys only)
WithTime(items, sortBy, engine) ==
    [k \in 1..Len(items) |->
        [txn |-> items[k],
         time |-> IF sortBy \in {"date-desc", "date-asc"} THEN DateParse(items[k].date, engine)
                  ELSE [nan |-> FALSE, hours |-> 0]]]

\* What Array.prototype.sort makes of the comparison: NaN counts as 0
SortOrder(sortBy, a, b) ==
    LET v == CompareFn(sortBy, a, b)
    IN  IF v.nan THEN 0 ELSE v.value

\* A consistent comparison function for the elements of the array (ECMA-262,
\* Array.prototype.sort): equal, before and after are each transitive
ConsistentComparator(items, sortBy) ==
    \A i, j, k \in 1..Len(items) :
        LET ab == SortOrder(sortBy, items[i], items[j])
            bc == SortOrder(sortBy, items[j], items[k])
            ac == SortOrder(sortBy, items[i], items[k])
        IN  /\ (ab = 0 /\ bc = 0) => ac = 0
            /\ (ab < 0 /\ bc < 0) => ac < 0
            /\ (ab > 0 /\ bc > 0) => ac > 0

\* The stable sort every engine gives for a consistent comparison function
RECURSIVE InsertSorted(_, _, _)
InsertSorted(sorted, x, sortBy) ==
    IF sorted = <<>> THEN <<x>>
    ELSE LET last == sorted[Len(sorted)]
         IN  IF SortOrder(sortBy, last, x) > 0
             THEN Append(InsertSorted(SubSeq(sorted, 1, Len(sorted) - 1), x, sortBy), last)
             ELSE Append(sorted, x)
RECURSIVE StableSort(_, _)
StableSort(items, sortBy) ==
    IF items = <<>> THEN <<>>
    ELSE InsertSorted(StableSort(SubSeq(items, 1, Len(items) - 1), sortBy),
                      items[Len(items)], sortBy)

\* The orders an engine may leave n elements in
Orders(n) == {order \in [1..n -> 1..n] : \A i, j \in 1..n : order[i] = order[j] => i = j}

\* The orders Array.prototype.sort may leave the array in: the stable one for a
\* consistent comparison function, and any order for one that is not
\* consistent (the order is then implementation-defined)
SortOutcomes(items, sortBy, engine) ==
    LET timed == WithTime(items, sortBy, engine)
        sorted == StableSort(timed, sortBy)
    IN  IF ConsistentComparator(timed, sortBy)
        THEN {[k \in 1..Len(items) |-> sorted[k].txn]}
        ELSE {[k \in 1..Len(items) |-> items[order[k]]] : order \in Orders(Len(items))}

\* sortTransactions: the array returned (sorted, one of the outcomes of the
\* sort), and the array passed in as the call leaves it
sortTransactions(transactions, sortBy, sorted) ==
    [sorted |-> IF sortBy \in SortKeys THEN sorted ELSE transactions,
     transactions |-> transactions]

\* ------------------------------------------------------------ state.js
\* The module-level `state` object before startApp has run
InitialState ==
    [transactions |-> <<>>,
     categories |-> <<>>,
     settings |-> DEFAULT_SETTINGS,
     budgetCap |-> 0,
     currentFilter |-> [searchRegex |-> NullRegex, category |-> <<>>, sortBy |-> "date-desc"],
     editingId |-> ""]

\* What the operators below work on: the state object, the storage, and the
\* DEFAULT_CATEGORIES array with whether state.categories is that very array.
World == [state |-> state, localStorage |-> localStorage,
          defaultCategories |-> defaultCategories,
          categoriesAliased |-> categoriesAliased]

\* The result of an operation: the world after it, what it returned, and the
\* storage keys it called setItem on.
NoRecord == [id |-> "", description |-> <<>>, amount |-> 0, category |-> <<>>,
             date |-> <<>>, createdAt |-> 0, updatedAt |-> 0]
Result(w, ret, wrote) == [w |-> w, ret |-> ret, record |-> NoRecord, wrote |-> wrote]
\* ... when what it returned is a transaction record
Returned(w, record, wrote) == [w |-> w, ret |-> "record", record |-> record, wrote |-> wrote]

initializeState(w) ==
    [w EXCEPT
        !.state.transactions = loadTransactions(w.localStorage),
        !.state.categories = loadCategories(w.localStorage, w.defaultCategories),
        !.state.settings = loadSettings(w.localStorage),
        !.state.budgetCap = loadBudgetCap(w.localStorage),
        !.categoriesAliased = loadCategoriesIsDefault(w.localStorage)]

\* 'txn_' + Date.now().toString(36) + Math.random().toString(36).slice(2, 9)
generateId(t, random) == "txn_" \o ToString(t) \o random

\* An in-place change of the state.categories array: when that array is the
\* DEFAULT_CATEGORIES object, the change is a change of DEFAULT_CATEGORIES too.
WithCategories(w, cats) ==
    [w EXCEPT !.state.categories = cats,
              !.defaultCategories = IF w.categoriesAliased THEN cats ELSE @]

\* addTransaction with push in the place of unshift
addTransactionPush(w, formData, t, random, failing) ==
    LET newTransaction ==
            [id |-> generateId(t, random),
             description |-> Trim(formData.description),
             amount |-> ParseFloat(formData.amount).v,
             category |-> formData.category,
             date |-> formData.date,
             createdAt |-> t,
             updatedAt |-> t]
        txns == Append(w.state.transactions, newTransaction)
    IN  Returned([w EXCEPT !.state.transactions = txns,
                           !.localStorage = saveTransactions(@, txns, failing)],
                 newTransaction, {"transactions"})

addTransaction(w, formData, t, random, failing) ==
    LET newTransaction ==
            [id |-> generateId(t, random),
             description |-> Trim(formData.description),
             amount |-> ParseFloat(formData.amount).v,
             category |-> formData.category,
             date |-> formData.date,
             createdAt |-> t,
             updatedAt |-> t]
        txns == <<newTransaction>> \o w.state.transactions
    IN  Returned([w EXCEPT !.state.transactions = txns,
                           !.localStorage = saveTransactions(@, txns, failing)],
                 newTransaction, {"transactions"})

\* The loop of updateTransaction, deleteTransaction and getTransaction: the
\* first index whose record carries the id, 0 when there is none.
FindIndex(transactions, id) ==
    IF \E i \in 1..Len(transactions) : transactions[i].id = id
    THEN CHOOSE i \in 1..Len(transactions) :
            /\ transactions[i].id = id
            /\ \A j \in 1..(i - 1) : transactions[j].id # id
    ELSE 0

\* updateTransaction that stamps createdAt anew
updateTransactionStamped(w, id, formData, t, failing) ==
    LET foundIndex == FindIndex(w.state.transactions, id)
        original == w.state.transactions[foundIndex]
        updated ==
            [id |-> original.id,
             description |-> Trim(formData.description),
             amount |-> ParseFloat(formData.amount).v,
             category |-> formData.category,
             date |-> formData.date,
             createdAt |-> t,
             updatedAt |-> t]
        txns == [w.state.transactions EXCEPT ![foundIndex] = updated]
    IN  IF foundIndex = 0 THEN Result(w, "null", {})
        ELSE Returned([w EXCEPT !.state.transactions = txns,
                                !.localStorage = saveTransactions(@, txns, failing)],
                      txns[foundIndex], {"transactions"})

updateTransaction(w, id, formData, t, failing) ==
    LET foundIndex == FindIndex(w.state.transactions, id)
        original == w.state.transactions[foundIndex]
        updated ==
            [id |-> original.id,
             description |-> Trim(formData.description),
             amount |-> ParseFloat(formData.amount).v,
             category |-> formData.category,
             date |-> formData.date,
             createdAt |-> original.createdAt,
             updatedAt |-> t]
        txns == [w.state.transactions EXCEPT ![foundIndex] = updated]
    IN  IF foundIndex = 0 THEN Result(w, "null", {})
        ELSE Returned([w EXCEPT !.state.transactions = txns,
                                !.localStorage = saveTransactions(@, txns, failing)],
                      txns[foundIndex], {"transactions"})

\* deleteTransaction that removes every record carrying the id
deleteTransactionEvery(w, id, failing) ==
    LET foundIndex == FindIndex(w.state.transactions, id)
        txns == SelectSeq(w.state.transactions, LAMBDA txn : txn.id # id)
    IN  IF foundIndex = 0 THEN Result(w, "false", {})
        ELSE Result([w EXCEPT !.state.transactions = txns,
                              !.localStorage = saveTransactions(@, txns, failing)],
                    "true", {"transactions"})

deleteTransaction(w, id, failing) ==
    LET foundIndex == FindIndex(w.state.transactions, id)
        txns == Splice1(w.state.transactions, foundIndex)
    IN  IF foundIndex = 0 THEN Result(w, "false", {})
        ELSE Result([w EXCEPT !.state.transactions = txns,
                              !.localStorage = saveTransactions(@, txns, failing)],
                    "true", {"transactions"})

getTransaction(w, id) == FindIndex(w.state.transactions, id)

addCategory(w, name, failing) ==
    LET trimmedName == Trim(name)
        cats == Append(w.state.categories, trimmedName)
        w1 == WithCategories(w, cats)
    IN  IF trimmedName = <<>> THEN Result(w, "false", {})
        ELSE IF Includes(w.state.categories, trimmedName) THEN Result(w, "false", {})
        ELSE Result([w1 EXCEPT !.localStorage = saveCategories(@, cats, failing)],
                    "true", {"categories"})

\* removeCategory without the `index === -1` return: splice(-1, 1) takes the
\* last label away
removeCategoryUnchecked(w, name, failing) ==
    LET index == IndexOf(w.state.categories, name)
        cats == IF index = 0
                THEN SubSeq(w.state.categories, 1, Len(w.state.categories) - 1)
                ELSE Splice1(w.state.categories, index)
        w1 == WithCategories(w, cats)
    IN  Result([w1 EXCEPT !.localStorage = saveCategories(@, cats, failing)],
               "true", {"categories"})

removeCategory(w, name, failing) ==
    LET index == IndexOf(w.state.categories, name)
        cats == Splice1(w.state.categories, index)
        w1 == WithCategories(w, cats)
    IN  IF index = 0 THEN Result(w, "false", {})
        ELSE Result([w1 EXCEPT !.localStorage = saveCategories(@, cats, failing)],
                    "true", {"categories"})

setBudgetCap(w, amount, failing) ==
    Result([w EXCEPT !.state.budgetCap = amount,
                     !.localStorage = saveBudgetCap(@, amount, failing)],
           "undefined", {"budgetCap"})

\* Object.assign({}, state.settings, newSettings): the keys of newSettings win
ObjectAssign(old, new) ==
    [baseCurrency |-> new.baseCurrency, rates |-> new.rates]

updateSettings(w, newSettings, failing) ==
    LET merged == ObjectAssign(w.state.settings, newSettings)
    IN  Result([w EXCEPT !.state.settings = merged,
                         !.localStorage = saveSettings(@, merged, failing)],
               "undefined", {"settings"})

clearAllData(w) ==
    Result([w EXCEPT
                !.state.transactions = <<>>,
                !.state.categories = loadCategories(w.localStorage, w.defaultCategories),
                !.categoriesAliased = loadCategoriesIsDefault(w.localStorage),
                !.state.settings = loadSettings(w.localStorage),
                !.state.budgetCap = 0,
                !.state.editingId = "",
                !.localStorage = storageClearAllData(@)],
           "undefined", {})

\* ------------------------------------------------------------ validators.js
\* REGEX_PATTERNS.date: /^\d{4}-(0[1-9]|1[0-2])-(0[1-9]|[12]\d|3[01])$/
DatePatternTest(d) ==
    /\ Len(d) = 10
    /\ \A i \in 1..4 : IsDigit(d[i])
    /\ d[5] = "-"
    /\ \/ d[6] = "0" /\ IsDigit(d[7]) /\ d[7] # "0"
       \/ d[6] = "1" /\ d[7] \in {"0", "1", "2"}
    /\ d[8] = "-"
    /\ \/ d[9] = "0" /\ IsDigit(d[10]) /\ d[10] # "0"
       \/ d[9] \in {"1", "2"} /\ IsDigit(d[10])
       \/ d[9] = "3" /\ d[10] \in {"0", "1"}

\* REGEX_PATTERNS.description: /^\S(?:.*\S)?$/
DescriptionPatternTest(s) ==
    /\ s # <<>>
    /\ ~IsSpace(s[1])
    /\ ~IsSpace(s[Len(s)])
    /\ \A i \in 1..Len(s) : s[i] # "\n"

\* \w
IsLetter(c) == \E i \in 1..26 : LowerLetters[i] = ToLower(c)
IsWordChar(c) == IsLetter(c) \/ IsDigit(c) \/ c = "_"

\* REGEX_PATTERNS.duplicateWord: /\b(\w+)\s+\1\b/i, a word of k characters
\* from p, white space, and the same word again (letter case apart) from q
DuplicateWordTest(s) ==
    \E p \in 1..Len(s), k \in 1..Len(s), m \in 1..Len(s) :
        LET q == p + k + m
        IN  /\ q + k - 1 <= Len(s)
            /\ p = 1 \/ ~IsWordChar(s[p - 1])
            /\ \A i \in p..(p + k - 1) : IsWordChar(s[i])
            /\ \A i \in (p + k)..(q - 1) : IsSpace(s[i])
            /\ \A i \in 0..(k - 1) : ToLower(s[p + i]) = ToLower(s[q + i])
            /\ q + k > Len(s) \/ ~IsWordChar(s[q + k])

\* /^\d+(\.\d{1,2})?$/: the amount pattern with any digit string before the point
AmountPatternTestAnyDigits(s) ==
    LET dot == IndexOf(s, ".")
        int == IF dot = 0 THEN s ELSE SubSeq(s, 1, dot - 1)
        frac == IF dot = 0 THEN <<>> ELSE SubSeq(s, dot + 1, Len(s))
    IN  /\ int # <<>>
        /\ \A i \in 1..Len(int) : IsDigit(int[i])
        /\ \/ dot = 0
           \/ /\ Len(frac) \in {1, 2}
              /\ \A i \in 1..Len(frac) : IsDigit(frac[i])

\* REGEX_PATTERNS.amount: /^(0|[1-9]\d*)(\.\d{1,2})?$/
AmountPatternTest(s) ==
    LET dot == IndexOf(s, ".")
        int == IF dot = 0 THEN s ELSE SubSeq(s, 1, dot - 1)
        frac == IF dot = 0 THEN <<>> ELSE SubSeq(s, dot + 1, Len(s))
    IN  /\ \/ int = <<"0">>
           \/ /\ int # <<>>
              /\ IsDigit(int[1]) /\ int[1] # "0"
              /\ \A i \in 1..Len(int) : IsDigit(int[i])
        /\ \/ dot = 0
           \/ /\ Len(frac) \in {1, 2}
              /\ \A i \in 1..Len(frac) : IsDigit(frac[i])

\* REGEX_PATTERNS.category: /^[A-Za-z]+(?:[ -][A-Za-z]+)*$/
CategoryPatternTest(s) ==
    /\ s # <<>>
    /\ IsLetter(s[1])
    /\ IsLetter(s[Len(s)])
    /\ \A i \in 1..Len(s) : IsLetter(s[i]) \/ s[i] \in {" ", "-"}
    /\ \A i \in 1..(Len(s) - 1) : IsLetter(s[i]) \/ IsLetter(s[i + 1])

MESSAGES ==
    [description |-> [required |-> "Description is required",
                      invalid |-> "Description cannot start or end with a space",
                      duplicate |-> "Description has a repeated word (e.g. \"the the\")"],
     amount |-> [required |-> "Amount is required",
                 invalid |-> "Enter a valid amount like 10 or 10.50"],
     date |-> [required |-> "Date is required",
               invalid |-> "Date must be in YYYY-MM-DD format (e.g. 2025-09-29)"],
     category |-> [required |-> "Please select a category",
                   invalid |-> "Category can only contain letters, spaces, and hyphens"]]

\* What a field validator returns: { valid, message }
Checked(valid, message) == [valid |-> valid, message |-> message]

validateDescription(value) ==
    IF value = <<>> \/ Trim(value) = <<>> THEN Checked(FALSE, MESSAGES.description.required)
    ELSE IF ~DescriptionPatternTest(value) THEN Checked(FALSE, MESSAGES.description.invalid)
    ELSE IF DuplicateWordTest(value) THEN Checked(FALSE, MESSAGES.description.duplicate)
    ELSE Checked(TRUE, "")

validateAmount(value) ==
    IF value = <<>> \/ Trim(value) = <<>> THEN Checked(FALSE, MESSAGES.amount.required)
    ELSE IF ~AmountPatternTest(value) THEN Checked(FALSE, MESSAGES.amount.invalid)
    ELSE IF ParseFloat(value).v < 0 THEN Checked(FALSE, "Amount cannot be negative")
    ELSE Checked(TRUE, "")

validateDate(value) ==
    LET year == DigitsToNat(SubSeq(value, 1, 4))
        month == DigitsToNat(SubSeq(value, 6, 7))
        day == DigitsToNat(SubSeq(value, 9, 10))
        dateObject == NewDate(year, month - 1, day)
        isRealDate == /\ dateObject.year = year
                      /\ dateObject.month - 1 = month - 1
                      /\ dateObject.day = day
    IN  IF value = <<>> \/ Trim(value) = <<>> THEN Checked(FALSE, MESSAGES.date.required)
        ELSE IF ~DatePatternTest(value) THEN Checked(FALSE, MESSAGES.date.invalid)
        ELSE IF ~isRealDate
             THEN Checked(FALSE, "That date does not exist (e.g. Feb 30 is invalid)")
        ELSE Checked(TRUE, "")

validateCategory(value) ==
    IF value = <<>> \/ Trim(value) = <<>> THEN Checked(FALSE, MESSAGES.category.required)
    ELSE IF ~CategoryPatternTest(value) THEN Checked(FALSE, MESSAGES.category.invalid)
    ELSE Checked(TRUE, "")

\* The errors object: a field without an entry holds ""
NoErrors == [description |-> "", amount |-> "", date |-> "", category |-> ""]

\* validateTransaction with the checks chained: a later field is looked at only
\* when the earlier ones passed
validateTransactionFirstError(transaction) ==
    LET descCheck == validateDescription(transaction.description)
        amountCheck == validateAmount(transaction.amount)
        dateCheck == validateDate(transaction.date)
        categoryCheck == validateCategory(transaction.category)
        errors ==
            IF ~descCheck.valid THEN [NoErrors EXCEPT !.description = descCheck.message]
            ELSE IF ~amountCheck.valid THEN [NoErrors EXCEPT !.amount = amountCheck.message]
            ELSE IF ~dateCheck.valid THEN [NoErrors EXCEPT !.date = dateCheck.message]
            ELSE IF ~categoryCheck.valid THEN [NoErrors EXCEPT !.category = categoryCheck.message]
            ELSE NoErrors
    IN  [valid |-> errors = NoErrors, errors |-> errors]

\* The form hands every field over as the string its control holds, so
\* String(transaction.amount || '') is that string.
validateTransaction(transaction) ==
    LET descCheck == validateDescription(transaction.description)
        amountCheck == validateAmount(transaction.amount)
        dateCheck == validateDate(transaction.date)
        categoryCheck == validateCategory(transaction.category)
        errors ==
            [description |-> IF ~descCheck.valid THEN descCheck.message ELSE "",
             amount |-> IF ~amountCheck.valid THEN amountCheck.message ELSE "",
             date |-> IF ~dateCheck.valid THEN dateCheck.message ELSE "",
             category |-> IF ~categoryCheck.valid THEN categoryCheck.message ELSE ""]
    IN  [valid |-> \A f \in DOMAIN errors : errors[f] = "",
         errors |-> errors]

\* One element of data.transactions as JSON.parse delivers it: null, or an
\* object whose fields have the given typeof ("undefined" for a field that is
\* not there) and the values of rec. An empty string, an empty sequence and a
\* timestamp 0 are the falsy values.
StringTyped == [id |-> "string", description |-> "string",
                amount |-> "number", category |-> "string"]
Candidate(rec) == [isNull |-> FALSE, types |-> StringTyped, rec |-> rec]

\* The first check of the loop body that returns, "" when none does;
\* "exception" when reading txn.id throws (txn is null)
FailingField(txn) ==
    IF txn.isNull THEN "exception"
    ELSE IF txn.rec.id = "" \/ txn.types.id # "string" THEN "id"
    ELSE IF txn.rec.description = <<>> \/ txn.types.description # "string" THEN "description"
    ELSE IF txn.types.amount # "number" \/ txn.rec.amount < 0 THEN "amount"
    ELSE IF txn.rec.category = <<>> \/ txn.types.category # "string" THEN "category"
    ELSE IF txn.rec.date = <<>> \/ ~DatePatternTest(txn.rec.date) THEN "date"
    ELSE IF txn.rec.createdAt = 0 \/ txn.rec.updatedAt = 0 THEN "timestamps"
    ELSE ""

\* The result {valid, message}: the message is held as the record position it
\* names (0 when it names none) and the field it names.
Verdict(valid, position, field) == [valid |-> valid, position |-> position, field |-> field]

validateImportData(data) ==
    LET txns == data.transactions.v
        bad == {i \in 1..Len(txns) : FailingField(txns[i]) # ""}
        first == CHOOSE i \in bad : \A j \in bad : i <= j
    IN  IF data.json # "object" THEN Verdict(FALSE, 0, "data")
        ELSE IF data.transactions.t # "array" THEN Verdict(FALSE, 0, "transactions")
        ELSE IF bad = {} THEN Verdict(TRUE, 0, "")
        ELSE IF FailingField(txns[first]) = "exception" THEN Verdict(FALSE, 0, "exception")
        ELSE Verdict(FALSE, first, FailingField(txns[first]))

\* ------------------------------------------------------------ import / export
Records(cands) == [i \in 1..Len(cands) |-> cands[i].rec]
Candidates(recs) == [i \in 1..Len(recs) |-> Candidate(recs[i])]

\* The keys storage.importData calls setItem on
ImportedKeys(data) ==
    {k \in {"transactions", "settings", "categories", "budgetCap"} :
        \/ k = "transactions" /\ data.transactions.t = "array"
        \/ k = "settings" /\ data.settings.t = "object"
        \/ k = "categories" /\ data.categories.t = "array"
        \/ k = "budgetCap" /\ data.budgetCap.t = "number"}

storageImportData(ls, data, failing) ==
    LET l1 == IF data.transactions.t = "array"
              THEN saveTransactions(ls, Records(data.transactions.v), failing) ELSE ls
        l2 == IF data.settings.t = "object"
              THEN saveSettings(l1, data.settings.v, failing) ELSE l1
        l3 == IF data.categories.t = "array"
              THEN saveCategories(l2, data.categories.v, failing) ELSE l2
        l4 == IF data.budgetCap.t = "number"
              THEN saveBudgetCap(l3, data.budgetCap.v, failing) ELSE l3
    IN  IF data.json # "object" THEN [success |-> FALSE, ls |-> ls]
        ELSE [success |-> TRUE, ls |-> l4]

importData(w, data, failing) ==
    LET result == storageImportData(w.localStorage, data, failing)
        w1 == [w EXCEPT !.localStorage = result.ls]
    IN  IF result.success
        THEN Result(initializeState(w1), "success", ImportedKeys(data))
        ELSE Result(w, "failure", {})

storageExportData(w) ==
    [json |-> "object",
     transactions |-> [t |-> "array", v |-> Candidates(loadTransactions(w.localStorage))],
     settings |-> [t |-> "object", v |-> loadSettings(w.localStorage)],
     categories |-> [t |-> "array",
                     v |-> loadCategories(w.localStorage, w.defaultCategories)],
     budgetCap |-> [t |-> "number", v |-> loadBudgetCap(w.localStorage)]]

exportData(w) == storageExportData(w)

\* ------------------------------------------------------------ ui.js
\* reader.onload of handleImport: JSON.parse, validateImportData, state.importData
handleImport(w, file, failing) ==
    LET validation == validateImportData(file)
        r == importData(w, file, failing)
    IN  IF file.json = "invalid" THEN Result(w, "not-json", {})
        ELSE IF ~validation.valid THEN Result(w, "rejected", {})
        ELSE r

\* the click listener of setupBudgetCap: parseFloat(capInput.value) || 0
capAmount(text) ==
    LET p == ParseFloat(text) IN IF p.nan \/ p.v = 0 THEN 0 ELSE p.v

setCapClick(w, text, failing) == setBudgetCap(w, capAmount(text), failing)

\* handleSaveRates: each rate field goes through parseFloat
Rate(text) == LET p == ParseFloat(text) IN IF p.nan THEN NaN ELSE Num(p.v)

handleSaveRates(w, form, failing) ==
    updateSettings(w,
        [baseCurrency |-> form.baseCurrency,
         rates |-> [USD |-> Rate(form.usd), EUR |-> Rate(form.eur), GBP |-> Rate(form.gbp)]],
        failing)

\* The instant read by new Date() at tick t of the clock, in hours from
\* 1970-01-01T00:00Z: 2024-03-01 23:00 UTC at the first tick, thirteen hours
\* more at each further one
HoursAt(t) == DaysFromCivil(2024, 3, 1) * 24 + 23 + (t - 1) * 13

\* padStart with zeros
RECURSIVE Pad(_, _)
Pad(digits, width) == IF Len(digits) >= width THEN digits ELSE Pad(<<"0">> \o digits, width)

\* toISOString().split('T')[0] of the instant whose UTC day is `days`
ISODate(days) ==
    LET c == CivilFromDays(days)
    IN  Pad(NatToString(c.year), 4) \o <<"-">> \o Pad(NatToString(c.month), 2)
            \o <<"-">> \o Pad(NatToString(c.day), 2)

getTodayDate(t) == ISODate(HoursAt(t) \div 24)

\* The four controls of the transaction form, and the form after resetForm
EmptyForm == [description |-> <<>>, amount |-> <<>>, category |-> <<>>, date |-> <<>>]
ResetForm(t) == [EmptyForm EXCEPT !.date = getTodayDate(t)]
\* ... and after openEditForm has filled it with a record
FilledForm(txn) ==
    [description |-> txn.description, amount |-> NumberToString(txn.amount),
     category |-> txn.category, date |-> txn.date]

validateSingleField(fieldName, value) ==
    CASE fieldName = "description" -> validateDescription(value)
      [] fieldName = "amount" -> validateAmount(value)
      [] fieldName = "date" -> validateDate(value)
      [] fieldName = "category" -> validateCategory(value)

\* ------------------------------------------------------------ state.js: calculateStats
RECURSIVE SumAmounts(_)
SumAmounts(transactions) ==
    IF transactions = <<>> THEN 0
    ELSE Head(transactions).amount + SumAmounts(Tail(transactions))

\* The properties every object inherits from Object.prototype and a category
\* name can spell
ObjectPrototypeNames ==
    {<<"c", "o", "n", "s", "t", "r", "u", "c", "t", "o", "r">>,
     <<"t", "o", "S", "t", "r", "i", "n", "g">>,
     <<"v", "a", "l", "u", "e", "O", "f">>}

\* categoryTotals after the grouping loop: its own properties in the order they
\* were created, each a number, or the string that `+=` makes of an inherited
\* function (isNumber FALSE)
RECURSIVE GroupByCategory(_, _)
GroupByCategory(categoryTotals, transactions) ==
    IF transactions = <<>> THEN categoryTotals
    ELSE LET cat == Head(transactions).category
             amount == Head(transactions).amount
             own == {i \in 1..Len(categoryTotals) : categoryTotals[i].key = cat}
             i == CHOOSE k \in own : TRUE
             after ==
                IF own # {}
                THEN [categoryTotals EXCEPT
                        ![i] = IF @.isNumber THEN [@ EXCEPT !.total = @ + amount] ELSE @]
                ELSE Append(categoryTotals,
                            [key |-> cat,
                             isNumber |-> cat \notin ObjectPrototypeNames,
                             total |-> amount])
         IN  GroupByCategory(after, Tail(transactions))

\* An integer-like property name (no category of the model has ten digits)
IsArrayIndex(key) ==
    /\ key # <<>>
    /\ Len(key) <= 9
    /\ \A i \in 1..Len(key) : IsDigit(key[i])
    /\ Len(key) = 1 \/ key[1] # "0"

\* Object.keys: the integer-like names in ascending order, then the others in
\* the order they were created
ObjectKeys(object) ==
    LET Before(a, b) == DigitsToNat(a.key) < DigitsToNat(b.key)
        IsIndex(e) == IsArrayIndex(e.key)
        IsName(e) == ~IsArrayIndex(e.key)
    IN  SortSeq(SelectSeq(object, IsIndex), Before) \o SelectSeq(object, IsName)

None == <<"N", "o", "n", "e">>

\* The loop that finds the category with the highest total
RECURSIVE TopCategory(_, _, _)
TopCategory(entries, topCategory, topAmount) ==
    IF entries = <<>> THEN topCategory
    ELSE IF Head(entries).isNumber /\ Head(entries).total > topAmount
         THEN TopCategory(Tail(entries), Head(entries).key, Head(entries).total)
         ELSE TopCategory(Tail(entries), topCategory, topAmount)

\* The spending of the last 7 days: sevenDaysAgo is the instant of the clock,
\* 7 days back
WeekTotal(transactions, t, engine) ==
    LET sevenDaysAgo == HoursAt(t) - 7 * 24
        Recent(txn) == LET parsed == DateParse(txn.date, engine)
                       IN  ~parsed.nan /\ parsed.hours >= sevenDaysAgo
    IN  SumAmounts(SelectSeq(transactions, Recent))

\* dailyTotals with an entry made for the date of every transaction, inside
\* the seven days or not
DailyTotalsOfAnyDate(transactions, t) ==
    LET days == [k \in 1..7 |-> ISODate((HoursAt(t) - (7 - k) * 24) \div 24)]
        dates == days \o [k \in 1..Len(transactions) |-> transactions[k].date]
    IN  [k \in 1..Len(dates) |->
            LET OnThatDay(txn) == txn.date = dates[k]
            IN  [date |-> dates[k], amount |-> SumAmounts(SelectSeq(transactions, OnThatDay))]]

\* dailyTotals: a key for the ISO date of the clock i days back, i from 6 down
\* to 0, in that order; then the amount of each transaction whose date is a key
DailyTotals(transactions, t) ==
    LET days == [k \in 1..7 |-> ISODate((HoursAt(t) - (7 - k) * 24) \div 24)]
    IN  [k \in 1..7 |->
            LET OnThatDay(txn) == txn.date = days[k]
            IN  [date |-> days[k], amount |-> SumAmounts(SelectSeq(transactions, OnThatDay))]]

calculateStats(w, t, engine) ==
    LET transactions == w.state.transactions
    IN  [total |-> Len(transactions),
         totalExpenses |-> SumAmounts(transactions),
         topCategory |-> TopCategory(ObjectKeys(GroupByCategory(<<>>, transactions)), None, 0),
         weekTotal |-> WeekTotal(transactions, t, engine),
         dailyTotals |-> DailyTotals(transactions, t),
         budgetCap |-> w.state.budgetCap]

NoStats ==
    [total |-> 0, totalExpenses |-> 0, topCategory |-> None, weekTotal |-> 0,
     dailyTotals |-> <<>>, budgetCap |-> 0]

\* renderBudgetCap with "more than the cap" in the place of "the cap or more"
renderBudgetCapAboveOnly(w, t, engine) ==
    LET stats == calculateStats(w, t, engine)
        cap == stats.budgetCap
        spent == stats.totalExpenses
        percentage == IF cap > 0 THEN (spent * 100) \div cap
                      ELSE 0 - ((spent * 100) \div (0 - cap))
        remaining == cap - spent
    IN  IF cap = 0 THEN [className |-> "cap-status", shown |-> FALSE, remaining |-> 0]
        ELSE IF percentage > 100
             THEN [className |-> "cap-status error", shown |-> TRUE, remaining |-> remaining]
        ELSE IF percentage >= 80
             THEN [className |-> "cap-status warning", shown |-> TRUE, remaining |-> remaining]
        ELSE [className |-> "cap-status success", shown |-> TRUE, remaining |-> remaining]

\* renderBudgetCap: the class of the status line, whether it carries a message,
\* and the remaining amount the message is built from. `percentage` is the
\* whole part of (spent / cap) * 100, which is on the same side of 80 and of
\* 100 as the quotient itself.
renderBudgetCap(w, t, engine) ==
    LET stats == calculateStats(w, t, engine)
        cap == stats.budgetCap
        spent == stats.totalExpenses
        percentage == IF cap > 0 THEN (spent * 100) \div cap
                      ELSE 0 - ((spent * 100) \div (0 - cap))
        remaining == cap - spent
    IN  IF cap = 0 THEN [className |-> "cap-status", shown |-> FALSE, remaining |-> 0]
        ELSE IF percentage >= 100
             THEN [className |-> "cap-status error", shown |-> TRUE, remaining |-> remaining]
        ELSE IF percentage >= 80
             THEN [className |-> "cap-status warning", shown |-> TRUE, remaining |-> remaining]
        ELSE [className |-> "cap-status success", shown |-> TRUE, remaining |-> remaining]

NoCapStatus == [className |-> "", shown |-> FALSE, remaining |-> 0]

\* handleSearch: compile what the search box holds and store the matcher
handleSearch(w, d) ==
    Result([w EXCEPT !.state.currentFilter.searchRegex =
                        compileRegex(d.searchInput, d.searchCase)],
           "undefined", {})

handleSort(w, value) ==
    Result([w EXCEPT !.state.currentFilter.sortBy = value], "undefined", {})

handleCategoryFilter(w, value) ==
    Result([w EXCEPT !.state.currentFilter.category = value], "undefined", {})

\* renderRecords, step 1: the three lists, and the world as the calls leave it
\* (with no category and no matcher the array sortTransactions is given is
\* state.transactions itself)
renderRecords(w, sorted) ==
    LET currentFilter == w.state.currentFilter
        filtered == filterByCategory(w.state.transactions, currentFilter.category)
        searched == searchTransactions(filtered, currentFilter.searchRegex)
        sorting == sortTransactions(searched, currentFilter.sortBy, sorted)
        sameArray == currentFilter.category = <<>> /\ currentFilter.searchRegex.isNull
    IN  [w |-> IF sameArray THEN [w EXCEPT !.state.transactions = sorting.transactions]
               ELSE w,
         filtered |-> filtered, searched |-> searched, shown |-> sorting.sorted]

\* The delays of the three setTimeout calls, in milliseconds
SEARCH_DELAY == 200
CLEAR_CONFIRM_DELAY == 4000
DELETE_CONFIRM_DELAY == 3000

\* The input listener of the search box that leaves a pending timeout running
searchInputNoRestart(d, text) ==
    [d EXCEPT !.searchInput = text,
              !.searchDelay = TRUE,
              !.searchDue = IF d.searchDelay THEN @ ELSE SEARCH_DELAY,
              !.sinceInput = 0,
              !.burst = "open",
              !.restarted = d.searchDelay]

\* The input listener of the search box: clearTimeout, then setTimeout
searchInput(d, text) ==
    [d EXCEPT !.searchInput = text,
              !.searchDelay = TRUE,
              !.searchDue = SEARCH_DELAY,
              !.sinceInput = 0,
              !.burst = "open",
              !.restarted = d.searchDelay]

\* renderRecords, step 4: container.innerHTML puts new buttons in the place of
\* the ones that were there
NewCards(d) == [d EXCEPT !.deleteBtns = {}, !.deleteClicked = {}]

\* handleClearData that wipes the data at the first click
handleClearDataAtOnce(w, d) ==
    [r |-> Result(clearAllData(w).w, "cleared", {}),
     d |-> NewCards([d EXCEPT !.clearBtn.confirming = FALSE,
                              !.clearClicked = FALSE,
                              !.armedFor = 0])]

handleClearData(w, d) ==
    IF d.clearBtn.confirming
    THEN [r |-> Result(clearAllData(w).w, "cleared", {}),
          d |-> NewCards([d EXCEPT !.clearBtn.confirming = FALSE,
                                   !.clearClicked = FALSE,
                                   !.armedFor = 0])]
    ELSE [r |-> Result(w, "confirming", {}),
          d |-> [d EXCEPT !.clearBtn.confirming = TRUE,
                          !.clearTimers = Append(@, CLEAR_CONFIRM_DELAY),
                          !.clearClicked = TRUE,
                          !.armedFor = 0]]

\* The callback of the timeout handleClearData sets
clearConfirmTimeout(d) ==
    IF d.clearBtn.confirming
    THEN [d EXCEPT !.clearBtn.confirming = FALSE, !.clearClicked = FALSE, !.armedFor = 0,
                   !.clearTimers = Tail(@)]
    ELSE [d EXCEPT !.clearTimers = Tail(@)]

\* The Delete button of the card at a position is confirming
Confirming(d, index) == \E b \in d.deleteBtns : b.index = index

\* handleDeleteClick on the button of the card at a position
handleDeleteClick(w, d, index, failing) ==
    IF Confirming(d, index)
    THEN [r |-> deleteTransaction(w, w.state.transactions[index].id, failing),
          d |-> NewCards(d)]
    ELSE [r |-> Result(w, "confirming", {}),
          d |-> [d EXCEPT !.deleteBtns = @ \cup {[index |-> index,
                                                  due |-> DELETE_CONFIRM_DELAY]},
                          !.deleteClicked = @ \cup {index}]]

\* The callback of the timeout handleDeleteClick sets
deleteConfirmTimeout(d, index) ==
    [d EXCEPT !.deleteBtns = {b \in @ : b.index # index},
              !.deleteClicked = @ \ {index}]

openEditForm(w, id) ==
    IF getTransaction(w, id) = 0 THEN Result(w, "not-found", {})
    ELSE Result([w EXCEPT !.state.editingId = id], "editing", {})

\* ------------------------------------------------------------ inputs
Date1 == <<"2", "0", "2", "4", "-", "0", "2", "-", "2", "9">>
Date2 == <<"2", "0", "2", "5", "-", "1", "1", "-", "0", "3">>
BadDate == <<"2", "0", "2", "5", "-", "1", "3", "-", "0", "1">>
Tea == <<"t", "e", "a">>
Pen == <<"P", "e", "n">>

\* What the form hands to addTransaction / updateTransaction once
\* validateTransaction has accepted it
FormInputs ==
    {[description |-> Tea, amount |-> <<"3", ".", "5">>, category |-> Food, date |-> Date1],
     [description |-> Pen, amount |-> <<"1", "0">>, category |-> Books, date |-> Date2]}

\* Math.random().toString(36).slice(2, 9)
RandomSuffixes == {"k4z9xm2", "q07hb1c"}

\* Names typed into the new-category field, and names on the remove buttons
CategoryNames == {Gym, <<" ">> \o Gym \o <<" ">>, Food, <<" ", " ">>, <<>>}
RemovableNames == {Food, Gym, Tea}

\* Texts typed into the budget-cap field
CapTexts == {<<>>, <<"5", "0">>, <<"-", "5">>, <<"a", "b", "c">>}

\* The settings form
RateForms ==
    {[baseCurrency |-> "EUR", usd |-> <<"1", ".", "0", "9">>, eur |-> <<"1">>,
      gbp |-> <<"0", ".", "8", "6">>],
     [baseCurrency |-> "USD", usd |-> <<"1">>, eur |-> <<>>, gbp |-> <<"0", ".", "7", "9">>]}

\* Texts typed into the search box
SearchTexts ==
    {<<>>, <<" ">>, <<"e">>, <<"p", "e">>, <<"o", "+", "d">>, <<"3", ".", "5">>,
     <<"+">>, <<"e", "+", "+">>, <<"(", "e">>, <<"-", "1", "1">>}

\* Keys pressed in the amount field
AmountChars == {"0", "1", "5", ".", "-", " ", "a"}

\* Values of the date field: every year, month and day text below, joined by
\* "-", and a few texts of another shape
DateYears ==
    {<<"0", "0", "0", "0">>, <<"0", "0", "5", "0">>, <<"0", "1", "0", "0">>,
     <<"1", "9", "0", "0">>, <<"2", "0", "0", "0">>, <<"2", "0", "2", "4">>,
     <<"2", "0", "2", "5">>, <<"9", "9", "9", "9">>}
DateMonths ==
    {<<"0", "0">>, <<"0", "1">>, <<"0", "2">>, <<"0", "4">>, <<"1", "2">>, <<"1", "3">>}
DateDays ==
    {<<"0", "0">>, <<"0", "1">>, <<"2", "8">>, <<"2", "9">>, <<"3", "0">>, <<"3", "1">>,
     <<"3", "2">>}
DateTexts ==
    {y \o <<"-">> \o m \o <<"-">> \o d : y \in DateYears, m \in DateMonths, d \in DateDays}
        \cup {<<>>, <<" ">>, <<"2", "5", "-", "0", "9", "-", "2", "9">>,
               <<"2", "0", "2", "4", "-", "2", "-", "2", "9">>,
               <<"2", "0", "2", "4", "/", "0", "2", "/", "2", "9">>,
               <<" ">> \o Date1, Date1 \o <<" ">>}

\* Values given to the controls of the form before it is submitted
FormTexts ==
    [description |-> {<<>>, Tea, <<" ">> \o Tea, Tea \o <<" ">> \o Tea},
     amount |-> {<<>>, <<"3", ".", "5">>, <<"0", "1">>},
     date |-> {<<>>, Date1, BadDate, <<"2", "0", "2", "5", "-", "0", "2", "-", "2", "9">>},
     category |-> {<<>>, Food, Food \o <<"1">>}]

RecA == [id |-> "txn_a", description |-> Tea, amount |-> 350, category |-> Food,
         date |-> Date1, createdAt |-> 1, updatedAt |-> 1]
RecB == [id |-> "txn_b", description |-> Pen, amount |-> 1000, category |-> Gym,
         date |-> Date2, createdAt |-> 1, updatedAt |-> 2]
\* the id of RecA once more, on another record
RecA2 == [RecB EXCEPT !.id = "txn_a"]
\* created after it was last updated
RecLate == [RecB EXCEPT !.createdAt = 2, !.updatedAt = 1]

Absent(empty) == [t |-> "absent", v |-> empty]
File(json, txns, settings, categories, cap) ==
    [json |-> json, transactions |-> txns, settings |-> settings,
     categories |-> categories, budgetCap |-> cap]
TxnsOnly(cands) ==
    File("object", [t |-> "array", v |-> cands], Absent(DEFAULT_SETTINGS),
         Absent(<<>>), Absent(0))

EurSettings ==
    [baseCurrency |-> "EUR", rates |-> [USD |-> Num(109), EUR |-> Num(100), GBP |-> Num(86)]]

\* A complete bundle, as handleExport writes it
FullFile ==
    File("object", [t |-> "array", v |-> <<Candidate(RecA), Candidate(RecB)>>],
         [t |-> "object", v |-> EurSettings], [t |-> "array", v |-> <<Food, Gym>>],
         [t |-> "number", v |-> 7000])
\* Bundles that pass validateImportData although two records share an id, or
\* a record was created after its last update
TransactionFiles ==
    {FullFile, TxnsOnly(<<Candidate(RecA), Candidate(RecA2)>>), TxnsOnly(<<Candidate(RecLate)>>)}
\* Bundles that pass it with a repeated category and a negative cap, or with
\* settings, categories and cap of the wrong type
SettingsFiles ==
    {FullFile,
     File("object", [t |-> "array", v |-> <<>>], Absent(DEFAULT_SETTINGS),
          [t |-> "array", v |-> <<Food, Food>>], [t |-> "number", v |-> 0 - 500]),
     File("object", [t |-> "array", v |-> <<Candidate(RecB)>>],
          [t |-> "other", v |-> DEFAULT_SETTINGS], [t |-> "other", v |-> <<>>],
          [t |-> "other", v |-> 0])}
GoodFiles == TransactionFiles \cup SettingsFiles

\* Records that fail one check each
NullRecord == [isNull |-> TRUE, types |-> StringTyped, rec |-> RecA]
BadRecords ==
    {NullRecord,
     Candidate([RecA EXCEPT !.id = ""]),
     [Candidate(RecA) EXCEPT !.types.id = "number"],
     Candidate([RecA EXCEPT !.description = <<>>]),
     [Candidate(RecA) EXCEPT !.types.amount = "string"],
     Candidate([RecA EXCEPT !.amount = 0 - 100]),
     [Candidate(RecA) EXCEPT !.types.category = "undefined"],
     Candidate([RecA EXCEPT !.date = BadDate]),
     Candidate([RecA EXCEPT !.updatedAt = 0])}

\* Files that validateImportData or JSON.parse refuses: a bad record first, a
\* bad record after a good one (with the other fields present), two bad
\* records, and files that are no bundle at all
BadFiles ==
    {TxnsOnly(<<c>>) : c \in BadRecords}
    \cup {File("object", [t |-> "array", v |-> <<Candidate(RecB), c>>],
               [t |-> "object", v |-> EurSettings], [t |-> "array", v |-> <<Gym>>],
               [t |-> "number", v |-> 7000]) : c \in BadRecords}
    \cup {TxnsOnly(<<Candidate([RecA EXCEPT !.date = BadDate]), NullRecord>>)}
    \cup {File("invalid", Absent(<<>>), Absent(DEFAULT_SETTINGS), Absent(<<>>), Absent(0)),
          File("nonobject", Absent(<<>>), Absent(DEFAULT_SETTINGS), Absent(<<>>), Absent(0)),
          File("object", Absent(<<>>), [t |-> "object", v |-> EurSettings],
               Absent(<<>>), [t |-> "number", v |-> 7000])}

\* Records for the dashboard: the clock starts on 2024-03-01
Txn(id, category, amount, date) ==
    [id |-> id, description |-> Tea, amount |-> amount, category |-> category,
     date |-> date, createdAt |-> 1, updatedAt |-> 1]
Feb23 == <<"2", "0", "2", "4", "-", "0", "2", "-", "2", "3">>
Feb24 == <<"2", "0", "2", "4", "-", "0", "2", "-", "2", "4">>
Mar01 == <<"2", "0", "2", "4", "-", "0", "3", "-", "0", "1">>
Mar02 == <<"2", "0", "2", "4", "-", "0", "3", "-", "0", "2">>
StatsRecords ==
    {<<Txn("txn_a", Food, 3000, Date1), Txn("txn_b", Food, 2000, Mar01),
       Txn("txn_c", Books, 1000, Feb23)>>,
     <<Txn("txn_a", Books, 1000, Feb24), Txn("txn_b", Food, 1000, Mar02)>>,
     <<Txn("txn_a", Food, 0, Mar01)>>,
     <<Txn("txn_a", <<"1", "0">>, 500, Mar01), Txn("txn_b", <<"9">>, 500, Feb24)>>,
     <<Txn("txn_a", <<"c", "o", "n", "s", "t", "r", "u", "c", "t", "o", "r">>, 5000, Mar01),
       Txn("txn_b", Food, 3000, Date1)>>,
     <<Txn("txn_a", Food, 3000, Date2)>>,
     <<>>}
StatsFiles == {TxnsOnly(Candidates(recs)) : recs \in StatsRecords}

\* Records and caps for the budget line
BudgetRecords ==
    {<<Txn("txn_a", Food, 8500, Mar01)>>,
     <<Txn("txn_a", Food, 8500, Mar01), Txn("txn_b", Books, 3500, Date1)>>,
     <<Txn("txn_a", Food, 7999, Mar01)>>,
     <<Txn("txn_a", Food, 4000, Mar01), Txn("txn_b", Books, 4000, Date1)>>,
     <<Txn("txn_a", Food, 10000, Mar01)>>,
     <<>>}
BudgetFiles == {TxnsOnly(Candidates(recs)) : recs \in BudgetRecords}
BudgetCapTexts == {<<>>, <<"1", "0", "0">>, <<"5", "0">>, <<"8", "5">>, <<"-", "5">>}

\* Records for the list: a day February does not have between two real dates,
\* and two records of one date
Feb30 == <<"2", "0", "2", "4", "-", "0", "2", "-", "3", "0">>
ListRecords ==
    {<<Txn("txn_a", Food, 1000, Feb24), [Txn("txn_b", Books, 500, Feb30) EXCEPT !.description = Pen],
       Txn("txn_c", Food, 2000, Mar02)>>,
     <<Txn("txn_a", Food, 1000, Mar01), [Txn("txn_b", Books, 500, Mar01) EXCEPT !.description = Pen],
       Txn("txn_c", Food, 700, Feb24)>>,
     <<Txn("txn_a", Books, 300, Date2)>>,
     <<>>}
ListFiles == {TxnsOnly(Candidates(recs)) : recs \in ListRecords}

\* The milliseconds that go by between two events
TimeSteps == {100, 1000}

\* Options of the sort select and of the category select
SortValues == SortKeys \cup {"none"}
FilterValues == {<<>>, Food, Books, Gym}

\* Ids on the Edit / Delete buttons and in editingId: those of the records
\* shown, and one of a record that is no longer there
KnownIds == {state.transactions[i].id : i \in 1..Len(state.transactions)} \cup {"txn_gone"}

\* ------------------------------------------------------------ actions
NoFile == File("invalid", Absent(<<>>), Absent(DEFAULT_SETTINGS), Absent(<<>>), Absent(0))

\* The page as served: an empty search box and an empty form
\* The page as served. searchDelay tells whether the timeout of the search
\* box is pending and searchDue the milliseconds it still has to run;
\* clearTimers holds the milliseconds each pending timeout of the Clear All
\* Data button has to run, in the order they were set; deleteBtns holds the
\* Delete buttons that are confirming, each with the position of its card
\* and the milliseconds its timeout has to run. History of the controls:
\* sinceInput, the milliseconds since the last input event of a burst that
\* is still open (burst) and whether an event of the burst found the timeout
\* pending (restarted); armedFor, the milliseconds since the click that
\* set the Clear All Data button confirming; clearClicked and deleteClicked,
\* the controls clicked once and not reset since.
InitialDom ==
    [searchInput |-> <<>>, searchCase |-> FALSE, searchDelay |-> FALSE, form |-> EmptyForm,
     searchDue |-> 0, sinceInput |-> 0, burst |-> "none", restarted |-> FALSE,
     clearBtn |-> [confirming |-> FALSE], clearTimers |-> <<>>, armedFor |-> 0,
     clearClicked |-> FALSE,
     deleteBtns |-> {}, deleteClicked |-> {}]

\* lastOp: the operation, what it returned (with the record, when it returned
\* one), and its arguments: the id, the text (a category name, the budget-cap
\* text) or the file it was given; for a refused import, the record position
\* and the field the message names.
Op(name, r) ==
    [name |-> name, ret |-> r.ret, record |-> r.record, id |-> "", text |-> <<>>,
     file |-> NoFile, position |-> 0, field |-> "", message |-> "",
     errors |-> NoErrors, stats |-> NoStats, capStatus |-> NoCapStatus,
     filtered |-> <<>>, searched |-> <<>>, shown |-> <<>>]
Void == [ret |-> "undefined", record |-> NoRecord]

Init ==
    /\ started = FALSE
    /\ now = 1
    /\ state = InitialState
    /\ defaultCategories = DEFAULT_CATEGORIES
    /\ categoriesAliased = FALSE
    /\ localStorage = EmptyStorage
    /\ dom = InitialDom
    /\ writeFailures = 0
    /\ lastOp = Op("load", Void)

\* The world becomes r.w; `failing` are the setItem calls of the operation
\* that threw.
Becomes(r, failing) ==
    /\ failing \subseteq r.wrote
    /\ writeFailures + Cardinality(failing) <= MaxWriteFailures
    /\ writeFailures' = writeFailures + Cardinality(failing)
    /\ state' = r.w.state
    /\ localStorage' = r.w.localStorage
    /\ defaultCategories' = r.w.defaultCategories
    /\ categoriesAliased' = r.w.categoriesAliased
    /\ UNCHANGED <<started, now>>

\* app.js startApp, once per page load: state.initializeState(), then ui.init,
\* whose setupForm puts today's date in the date field
StartApp ==
    /\ ~started
    /\ started' = TRUE
    /\ LET w == initializeState(World)
       IN  /\ state' = w.state
           /\ categoriesAliased' = w.categoriesAliased
    /\ dom' = NewCards([dom EXCEPT !.form.date = getTodayDate(now)])
    /\ lastOp' = Op("initializeState", Void)
    /\ UNCHANGED <<now, defaultCategories, localStorage, writeFailures>>

\* The page is loaded again: every module is evaluated afresh, storage stays
Reload ==
    /\ started
    /\ started' = FALSE
    /\ state' = InitialState
    /\ defaultCategories' = DEFAULT_CATEGORIES
    /\ categoriesAliased' = FALSE
    /\ dom' = InitialDom
    /\ lastOp' = Op("load", Void)
    /\ UNCHANGED <<now, localStorage, writeFailures>>

\* The milliseconds the pending timeouts have to run
PendingDues(d) ==
    {d.clearTimers[i] : i \in 1..Len(d.clearTimers)}
    \cup {b.due : b \in d.deleteBtns}
    \cup (IF d.searchDelay THEN {d.searchDue} ELSE {})

\* Half a day goes by (no timeout is pending that long)
Tick ==
    /\ now < MaxTime
    /\ PendingDues(dom) = {}
    /\ now' = now + 1
    /\ lastOp' = Op("tick", Void)
    /\ UNCHANGED <<started, state, defaultCategories, categoriesAliased,
                   localStorage, dom, writeFailures>>

\* handleFormSubmit on a form that holds formData and passes
\* validateTransaction, with no record being edited
AddTransaction(formData, random, failing) ==
    /\ started
    /\ Len(state.transactions) < MaxTxns
    /\ LET r == addTransaction(World, formData, now, random, failing)
       IN  /\ Becomes([r EXCEPT !.w.state.editingId = ""], failing)
           /\ lastOp' = Op("addTransaction", r)
    /\ dom' = NewCards([dom EXCEPT !.form = ResetForm(now)])

UpdateTransaction(id, formData, failing) ==
    /\ started
    /\ LET r == updateTransaction(World, id, formData, now, failing)
       IN  /\ Becomes([r EXCEPT !.w.state.editingId = ""], failing)
           /\ lastOp' = [Op("updateTransaction", r) EXCEPT !.id = id]
    /\ dom' = NewCards([dom EXCEPT !.form = ResetForm(now)])

DeleteTransaction(id, failing) ==
    /\ started
    /\ LET r == deleteTransaction(World, id, failing)
       IN  Becomes(r, failing) /\ lastOp' = [Op("deleteTransaction", r) EXCEPT !.id = id]
    /\ dom' = NewCards(dom)

OpenEditForm(id) ==
    /\ started
    /\ LET r == openEditForm(World, id)
       IN  /\ Becomes(r, {})
           /\ lastOp' = [Op("openEditForm", r) EXCEPT !.id = id]
           /\ dom' = IF r.ret = "editing"
                     THEN [dom EXCEPT !.form =
                              FilledForm(state.transactions[getTransaction(World, id)])]
                     ELSE dom

\* An input event of a control of the transaction form: it now holds `text`
FieldInput(fieldName, text) ==
    /\ started
    /\ dom' = [dom EXCEPT !.form[fieldName] = text]
    /\ lastOp' = [Op("input", Void) EXCEPT !.field = fieldName, !.text = text]
    /\ UNCHANGED <<started, now, state, defaultCategories, categoriesAliased,
                   localStorage, writeFailures>>

\* The blur (change, for the select) listener of a control of the form
FieldBlur(fieldName) ==
    /\ started
    /\ LET result == validateSingleField(fieldName, dom.form[fieldName])
       IN  lastOp' = [Op("validateSingleField",
                         [ret |-> IF result.valid THEN "true" ELSE "false",
                          record |-> NoRecord])
                      EXCEPT !.field = fieldName, !.text = dom.form[fieldName],
                             !.message = result.message]
    /\ UNCHANGED <<started, now, state, defaultCategories, categoriesAliased,
                   localStorage, dom, writeFailures>>

\* handleFormSubmit on the form as it stands
HandleFormSubmit(random, failing) ==
    /\ started
    /\ LET formData == dom.form
           validation == validateTransaction(formData)
           editing == state.editingId # ""
           r == IF editing
                THEN updateTransaction(World, state.editingId, formData, now, failing)
                ELSE addTransaction(World, formData, now, random, failing)
       IN  IF ~validation.valid
           THEN /\ failing = {}
                /\ lastOp' = [Op("handleFormSubmit", [ret |-> "invalid", record |-> NoRecord])
                               EXCEPT !.errors = validation.errors]
                /\ UNCHANGED <<started, now, state, defaultCategories, categoriesAliased,
                               localStorage, dom, writeFailures>>
           ELSE /\ editing \/ Len(state.transactions) < MaxTxns
                /\ Becomes([r EXCEPT !.w.state.editingId = ""], failing)
                /\ dom' = NewCards([dom EXCEPT !.form = ResetForm(now)])
                /\ lastOp' = Op("handleFormSubmit", r)

AddCategory(name, failing) ==
    /\ started
    /\ LET r == addCategory(World, name, failing)
       IN  Becomes(r, failing) /\ lastOp' = [Op("addCategory", r) EXCEPT !.text = name]
    /\ UNCHANGED dom

RemoveCategory(name, failing) ==
    /\ started
    /\ LET r == removeCategory(World, name, failing)
       IN  Becomes(r, failing) /\ lastOp' = [Op("removeCategory", r) EXCEPT !.text = name]
    /\ UNCHANGED dom

SetCapClick(text, failing) ==
    /\ started
    /\ LET r == setCapClick(World, text, failing)
       IN  Becomes(r, failing) /\ lastOp' = [Op("setBudgetCap", r) EXCEPT !.text = text]
    /\ UNCHANGED dom

HandleSaveRates(form, failing) ==
    /\ started
    /\ LET r == handleSaveRates(World, form, failing)
       IN  Becomes(r, failing) /\ lastOp' = Op("updateSettings", r)
    /\ UNCHANGED dom

ClearAllData ==
    /\ started
    /\ LET r == clearAllData(World)
       IN  Becomes(r, {}) /\ lastOp' = Op("clearAllData", r)
    /\ dom' = NewCards(dom)

HandleImport(file, failing) ==
    /\ started
    /\ LET r == handleImport(World, file, failing)
           v == validateImportData(file)
       IN  /\ Becomes(r, failing)
           /\ lastOp' = [Op("handleImport", r) EXCEPT
                            !.file = file,
                            !.position = IF r.ret = "rejected" THEN v.position ELSE 0,
                            !.field = IF r.ret = "rejected" THEN v.field ELSE ""]
           /\ dom' = IF r.ret = "success" THEN NewCards(dom) ELSE dom

\* renderDashboard: calculateStats, in a browser with the given Date parser
RenderDashboard(engine) ==
    /\ started
    /\ lastOp' = [Op("calculateStats", Void) EXCEPT
                     !.stats = calculateStats(World, now, engine)]
    /\ UNCHANGED <<started, now, state, defaultCategories, categoriesAliased,
                   localStorage, dom, writeFailures>>

RenderBudgetCap(engine) ==
    /\ started
    /\ lastOp' = [Op("renderBudgetCap", Void) EXCEPT
                     !.capStatus = renderBudgetCap(World, now, engine)]
    /\ UNCHANGED <<started, now, state, defaultCategories, categoriesAliased,
                   localStorage, dom, writeFailures>>

\* The input listener of the search box: the text changes, the pending
\* timer is cleared and a new one is set
SearchInput(text) ==
    /\ started
    /\ dom' = searchInput(dom, text)
    /\ lastOp' = [Op("searchInput", Void) EXCEPT !.text = text]
    /\ UNCHANGED <<started, now, state, defaultCategories, categoriesAliased,
                   localStorage, writeFailures>>

\* The last call of the three list handlers: renderRecords, in a browser with
\* the given Date parser and sort
Renders(name, w) ==
    LET currentFilter == w.state.currentFilter
        searched == searchTransactions(
                        filterByCategory(w.state.transactions, currentFilter.category),
                        currentFilter.searchRegex)
    IN  \E engine \in Engines :
            \E sorted \in SortOutcomes(searched, currentFilter.sortBy, engine) :
                LET r == renderRecords(w, sorted)
                IN  /\ Becomes(Result(r.w, "undefined", {}), {})
                    /\ lastOp' = [Op(name, Void) EXCEPT !.filtered = r.filtered,
                                                        !.searched = r.searched,
                                                        !.shown = r.shown]

\* The timer set by the input listener fires: handleSearch
SearchTimer ==
    /\ started
    /\ dom.searchDelay
    /\ dom.searchDue = 0
    /\ dom' = NewCards([dom EXCEPT !.searchDelay = FALSE, !.sinceInput = 0, !.burst = "done"])
    /\ Renders("handleSearch", handleSearch(World, dom).w)

\* The change listener of the case-sensitive checkbox: handleSearch at once
SearchCaseChange ==
    /\ started
    /\ dom' = NewCards([dom EXCEPT !.searchCase = ~@])
    /\ Renders("handleSearch", handleSearch(World, dom').w)

\* The change listener of the sort select
HandleSort(value) ==
    /\ started
    /\ Renders("handleSort", handleSort(World, value).w)
    /\ dom' = NewCards(dom)

\* The change listener of the category select
HandleCategoryFilter(value) ==
    /\ started
    /\ Renders("handleCategoryFilter", handleCategoryFilter(World, value).w)
    /\ dom' = NewCards(dom)

\* A click on Clear All Data
HandleClearData ==
    /\ started
    /\ dom.clearBtn.confirming \/ Len(dom.clearTimers) < MaxTimers
    /\ LET h == handleClearData(World, dom)
       IN  /\ Becomes(h.r, {})
           /\ dom' = h.d
           /\ lastOp' = Op("handleClearData", h.r)

\* The oldest timeout of the Clear All Data button has run its time
ClearConfirmTimeout ==
    /\ started
    /\ dom.clearTimers # <<>>
    /\ Head(dom.clearTimers) = 0
    /\ dom' = clearConfirmTimeout(dom)
    /\ lastOp' = Op("clearConfirmTimeout",
                    [ret |-> IF dom.clearBtn.confirming THEN "reset" ELSE "undefined",
                     record |-> NoRecord])
    /\ UNCHANGED <<started, now, state, defaultCategories, categoriesAliased,
                   localStorage, writeFailures>>

\* The cards shown: the records that pass the category filter and the search
Shown(index) ==
    LET one == <<state.transactions[index]>>
    IN  searchTransactions(filterByCategory(one, state.currentFilter.category),
                           state.currentFilter.searchRegex) # <<>>

\* A click on the Delete button of the card at a position
HandleDeleteClick(index, failing) ==
    /\ started
    /\ index \in 1..Len(state.transactions)
    /\ Shown(index)
    /\ LET h == handleDeleteClick(World, dom, index, failing)
       IN  /\ Becomes(h.r, failing)
           /\ dom' = h.d
           /\ lastOp' = [Op("handleDeleteClick", h.r) EXCEPT
                            !.id = state.transactions[index].id, !.position = index]

\* The timeout of a Delete button that is confirming has run its time
DeleteConfirmTimeout(index) ==
    /\ started
    /\ \E b \in dom.deleteBtns : b.index = index /\ b.due = 0
    /\ dom' = deleteConfirmTimeout(dom, index)
    /\ lastOp' = [Op("deleteConfirmTimeout", Void) EXCEPT !.position = index]
    /\ UNCHANGED <<started, now, state, defaultCategories, categoriesAliased,
                   localStorage, writeFailures>>

\* Milliseconds go by, no more than the next timeout has to run
Elapse(ms) ==
    /\ started
    /\ PendingDues(dom) # {}
    /\ \A due \in PendingDues(dom) : ms <= due
    /\ dom' = [dom EXCEPT
                  !.clearTimers = [i \in 1..Len(@) |-> @[i] - ms],
                  !.deleteBtns = {[b EXCEPT !.due = @ - ms] : b \in @},
                  !.searchDue = IF dom.searchDelay THEN @ - ms ELSE @,
                  !.sinceInput = IF dom.burst = "open" THEN @ + ms ELSE @,
                  !.armedFor = IF dom.clearBtn.confirming /\ @ + ms <= CLEAR_CONFIRM_DELAY
                               THEN @ + ms ELSE @]
    /\ lastOp' = Op("elapse", Void)
    /\ UNCHANGED <<started, now, state, defaultCategories, categoriesAliased,
                   localStorage, writeFailures>>

\* ------------------------------------------------------------ specifications
\* The whole program
Next ==
    \/ StartApp
    \/ Reload
    \/ Tick
    \/ \E fd \in FormInputs, rnd \in RandomSuffixes, f \in SUBSET {"transactions"} :
            AddTransaction(fd, rnd, f)
    \/ \E id \in KnownIds, fd \in FormInputs, f \in SUBSET {"transactions"} :
            UpdateTransaction(id, fd, f)
    \/ \E id \in KnownIds, f \in SUBSET {"transactions"} : DeleteTransaction(id, f)
    \/ \E id \in KnownIds : OpenEditForm(id)
    \/ \E fieldName \in DOMAIN FormTexts : \E text \in FormTexts[fieldName] :
            FieldInput(fieldName, text)
    \/ \E c \in AmountChars :
            /\ Len(dom.form.amount) < MaxAmountLen
            /\ FieldInput("amount", Append(dom.form.amount, c))
    \/ \E text \in DateTexts : FieldInput("date", text)
    \/ \E fieldName \in DOMAIN FormTexts : FieldBlur(fieldName)
    \/ \E rnd \in RandomSuffixes, f \in SUBSET {"transactions"} : HandleFormSubmit(rnd, f)
    \/ \E name \in CategoryNames, f \in SUBSET {"categories"} : AddCategory(name, f)
    \/ \E name \in RemovableNames, f \in SUBSET {"categories"} : RemoveCategory(name, f)
    \/ \E text \in CapTexts \cup BudgetCapTexts, f \in SUBSET {"budgetCap"} :
            SetCapClick(text, f)
    \/ \E form \in RateForms, f \in SUBSET {"settings"} : HandleSaveRates(form, f)
    \/ ClearAllData
    \/ \E file \in GoodFiles \cup BadFiles \cup StatsFiles \cup BudgetFiles \cup ListFiles :
            \E f \in SUBSET ImportedKeys(file) : HandleImport(file, f)
    \/ \E engine \in Engines : RenderDashboard(engine)
    \/ \E engine \in Engines : RenderBudgetCap(engine)
    \/ \E value \in SortValues : HandleSort(value)
    \/ \E value \in FilterValues : HandleCategoryFilter(value)
    \/ \E text \in SearchTexts : SearchInput(text)
    \/ SearchTimer
    \/ SearchCaseChange
    \/ HandleClearData
    \/ ClearConfirmTimeout
    \/ \E index \in 1..MaxTxns, f \in SUBSET {"transactions"} : HandleDeleteClick(index, f)
    \/ \E index \in 1..MaxTxns : DeleteConfirmTimeout(index)
    \/ \E ms \in TimeSteps : Elapse(ms)

Spec == Init /\ [][Next]_vars

\* The specifications below are Next restricted to the controls of one panel
\* of the page, so every behaviour of theirs is a behaviour of Spec.

\* The transaction controls: the form, the Delete button, Clear All Data and
\* the import of a file, with a storage that takes every write
NextTransactions ==
    \/ StartApp
    \/ Tick
    \/ \E fd \in FormInputs, rnd \in RandomSuffixes : AddTransaction(fd, rnd, {})
    \/ \E id \in KnownIds, fd \in FormInputs : UpdateTransaction(id, fd, {})
    \/ \E id \in KnownIds : DeleteTransaction(id, {})
    \/ ClearAllData
    \/ \E file \in TransactionFiles : HandleImport(file, {})

SpecTransactions == Init /\ [][NextTransactions]_vars

\* The category list of the settings panel, Clear All Data, the import of a
\* file and the reload of the page, with a storage that may refuse a write
NextCategories ==
    \/ StartApp
    \/ Reload
    \/ \E name \in CategoryNames, f \in SUBSET {"categories"} : AddCategory(name, f)
    \/ \E name \in RemovableNames, f \in SUBSET {"categories"} : RemoveCategory(name, f)
    \/ ClearAllData
    \/ \E file \in SettingsFiles : \E f \in SUBSET ImportedKeys(file) : HandleImport(file, f)

SpecCategories == Init /\ [][NextCategories]_vars

\* The budget cap and the currency rates of the settings panel, Clear All
\* Data, the import of a file and the reload of the page
NextSettings ==
    \/ StartApp
    \/ Reload
    \/ \E text \in CapTexts, f \in SUBSET {"budgetCap"} : SetCapClick(text, f)
    \/ \E form \in RateForms, f \in SUBSET {"settings"} : HandleSaveRates(form, f)
    \/ ClearAllData
    \/ \E file \in SettingsFiles : \E f \in SUBSET ImportedKeys(file) : HandleImport(file, f)

SpecSettings == Init /\ [][NextSettings]_vars

\* The import of a file, good or bad, over records added through the form
NextImport ==
    \/ StartApp
    \/ \E fd \in FormInputs, rnd \in RandomSuffixes : AddTransaction(fd, rnd, {})
    \/ \E file \in GoodFiles \cup BadFiles : HandleImport(file, {})

SpecImport == Init /\ [][NextImport]_vars

\* The search box, over imported records
NextSearch ==
    \/ StartApp
    \/ \E file \in TransactionFiles : HandleImport(file, {})
    \/ \E text \in SearchTexts : SearchInput(text)
    \/ SearchTimer
    \/ SearchCaseChange
    \/ Elapse(100)

SpecSearch == Init /\ [][NextSearch]_vars

\* The amount field of the form, typed key by key and left
NextAmount ==
    \/ StartApp
    \/ \E c \in AmountChars :
            /\ Len(dom.form.amount) < MaxAmountLen
            /\ FieldInput("amount", Append(dom.form.amount, c))
    \/ FieldBlur("amount")

SpecAmount == Init /\ [][NextAmount]_vars

\* The date field of the form, set and left
NextDate ==
    \/ StartApp
    \/ \E text \in DateTexts : FieldInput("date", text)
    \/ FieldBlur("date")

SpecDate == Init /\ [][NextDate]_vars

\* The form, filled control by control and submitted
NextForm ==
    \/ StartApp
    \/ \E fieldName \in DOMAIN FormTexts : \E text \in FormTexts[fieldName] :
            FieldInput(fieldName, text)
    \/ \E rnd \in RandomSuffixes : HandleFormSubmit(rnd, {})

SpecForm == Init /\ [][NextForm]_vars

\* The dashboard, over imported and added records, as the clock goes on
NextStats ==
    \/ StartApp
    \/ Tick
    \/ \E file \in StatsFiles : HandleImport(file, {})
    \/ \E fd \in FormInputs, rnd \in RandomSuffixes : AddTransaction(fd, rnd, {})
    \/ \E id \in KnownIds : DeleteTransaction(id, {})
    \/ \E engine \in Engines : RenderDashboard(engine)

SpecStats == Init /\ [][NextStats]_vars

\* The budget line, over imported records and caps typed in
NextBudget ==
    \/ StartApp
    \/ \E file \in BudgetFiles : HandleImport(file, {})
    \/ \E text \in BudgetCapTexts : SetCapClick(text, {})
    \/ \E engine \in Engines : RenderBudgetCap(engine)

SpecBudget == Init /\ [][NextBudget]_vars

\* The list of records, filtered and sorted, over imported records
NextList ==
    \/ StartApp
    \/ \E file \in ListFiles : HandleImport(file, {})
    \/ \E value \in SortValues : HandleSort(value)
    \/ \E value \in FilterValues : HandleCategoryFilter(value)

SpecList == Init /\ [][NextList]_vars

\* The Edit and Delete buttons of the records, Clear All Data, the import of a
\* file and the form
NextEdit ==
    \/ StartApp
    \/ \E file \in TransactionFiles : HandleImport(file, {})
    \/ \E id \in KnownIds : OpenEditForm(id)
    \/ \E id \in KnownIds : DeleteTransaction(id, {})
    \/ ClearAllData
    \/ \E text \in FormTexts.description : FieldInput("description", text)
    \/ \E rnd \in RandomSuffixes : HandleFormSubmit(rnd, {})

SpecEdit == Init /\ [][NextEdit]_vars

\* The two-click controls: Clear All Data and the Delete buttons, over
\* imported records, second by second
NextConfirm ==
    \/ StartApp
    \/ \E file \in TransactionFiles : HandleImport(file, {})
    \/ HandleClearData
    \/ ClearConfirmTimeout
    \/ \E index \in 1..MaxTxns : HandleDeleteClick(index, {})
    \/ \E index \in 1..MaxTxns : DeleteConfirmTimeout(index)
    \/ Elapse(1000)

SpecConfirm == Init /\ [][NextConfirm]_vars

\* ------------------------------------------------------------ properties

\* C1: once handleSearch has compiled a search text that is not a valid
\* pattern, searchTransactions with the stored matcher returns the empty
\* sequence.
C1_InvalidPatternMatchesNothing ==
    (/\ lastOp.name = "handleSearch"
     /\ Trim(dom.searchInput) # <<>>
     /\ SyntaxError(dom.searchInput))
    => searchTransactions(state.transactions, state.currentFilter.searchRegex) = <<>>

\* C2: while no storage write has failed, once startApp has run, what the four
\* loaders return is what the state object holds.
C2_WriteThrough ==
    (started /\ writeFailures = 0)
    => /\ loadTransactions(localStorage) = state.transactions
       /\ loadCategories(localStorage, defaultCategories) = state.categories
       /\ loadSettings(localStorage) = state.settings
       /\ loadBudgetCap(localStorage) = state.budgetCap

\* C3: while no storage write has failed, exportData, then clearAllData, then
\* importData of the exported bundle gives back the transactions, categories,
\* settings and budget cap the state object holds now.
C3_ExportClearImport ==
    (started /\ writeFailures = 0)
    => LET bundle == exportData(World)
           cleared == clearAllData(World).w
           back == importData(cleared, bundle, {}).w.state
       IN  /\ back.transactions = state.transactions
           /\ back.categories = state.categories
           /\ back.settings = state.settings
           /\ back.budgetCap = state.budgetCap

\* The structural check of one element of an import bundle, field by field
FailedFields(txn) ==
    {f \in {"id", "description", "amount", "category", "date", "timestamps"} :
        \/ txn.isNull
        \/ f = "id" /\ (txn.types.id # "string" \/ txn.rec.id = "")
        \/ f = "description" /\ (txn.types.description # "string" \/ txn.rec.description = <<>>)
        \/ f = "amount" /\ (txn.types.amount # "number" \/ txn.rec.amount < 0)
        \/ f = "category" /\ (txn.types.category # "string" \/ txn.rec.category = <<>>)
        \/ f = "date" /\ ~DatePatternTest(txn.rec.date)
        \/ f = "timestamps" /\ (txn.rec.createdAt = 0 \/ txn.rec.updatedAt = 0)}

\* C4: when handleImport is given a bundle with a transaction that fails the
\* structural check, the message names the position of the first such
\* transaction and a field it fails on, and neither the state object nor the
\* storage changes.
C4_ImportAllOrNothing ==
    [][(/\ lastOp'.name = "handleImport"
        /\ lastOp'.file.json = "object"
        /\ lastOp'.file.transactions.t = "array"
        /\ \E i \in 1..Len(lastOp'.file.transactions.v) :
                FailedFields(lastOp'.file.transactions.v[i]) # {})
       => LET txns == lastOp'.file.transactions.v
              first == CHOOSE i \in 1..Len(txns) :
                          /\ FailedFields(txns[i]) # {}
                          /\ \A j \in 1..(i - 1) : FailedFields(txns[j]) = {}
          IN  /\ lastOp'.ret = "rejected"
              /\ lastOp'.position = first
              /\ lastOp'.field \in FailedFields(txns[first])
              /\ state' = state
              /\ localStorage' = localStorage]_vars

\* C5: no two transactions of state.transactions carry the same id.
C5_UniqueIds ==
    \A i, j \in 1..Len(state.transactions) :
        i # j => state.transactions[i].id # state.transactions[j].id

\* C6: every transaction of state.transactions has createdAt <= updatedAt.
C6_CreatedBeforeUpdated ==
    \A i \in 1..Len(state.transactions) :
        state.transactions[i].createdAt <= state.transactions[i].updatedAt

\* C7: state.categories holds no label twice.
C7_NoDuplicateCategories ==
    \A i, j \in 1..Len(state.categories) :
        i # j => state.categories[i] # state.categories[j]

\* C8: the budget cap is never negative, in the state object and in storage.
C8_NonNegativeCap ==
    /\ state.budgetCap >= 0
    /\ loadBudgetCap(localStorage) >= 0

\* C9: removeCategory leaves the transactions, the settings and the budget cap
\* as they were, in the state object and in storage; with a name that is not in
\* the list it returns false and changes nothing; with one that is, it returns
\* true and takes that label's first occurrence out of the list.
C9_RemoveCategoryFrame ==
    [][lastOp'.name = "removeCategory"
       => /\ state'.transactions = state.transactions
          /\ state'.settings = state.settings
          /\ state'.budgetCap = state.budgetCap
          /\ localStorage'.transactions = localStorage.transactions
          /\ localStorage'.settings = localStorage.settings
          /\ localStorage'.budgetCap = localStorage.budgetCap
          /\ IF Includes(state.categories, lastOp'.text)
             THEN /\ lastOp'.ret = "true"
                  /\ state'.categories =
                        Splice1(state.categories, IndexOf(state.categories, lastOp'.text))
             ELSE /\ lastOp'.ret = "false"
                  /\ state' = state
                  /\ localStorage' = localStorage
                  /\ defaultCategories' = defaultCategories]_vars

\* removeCategory has taken away a label that a transaction still carries
C9_RemovedLabelStillUsed ==
    /\ lastOp.name = "removeCategory"
    /\ lastOp.ret = "true"
    /\ ~Includes(state.categories, lastOp.text)
    /\ \E i \in 1..Len(state.transactions) : state.transactions[i].category = lastOp.text

\* C10: addTransaction puts the record it returns first, makes the collection
\* one longer, and the records that were there follow it unchanged and in the
\* order they had.
C10_AddTransactionPrepends ==
    [][lastOp'.name = "addTransaction"
       => /\ Len(state'.transactions) = Len(state.transactions) + 1
          /\ state'.transactions[1] = lastOp'.record
          /\ Tail(state'.transactions) = state.transactions]_vars

\* addTransaction has put a record in front of another one
C10_AddedInFront ==
    /\ lastOp.name = "addTransaction"
    /\ Len(state.transactions) >= 2
    /\ state.transactions[1] = lastOp.record
    /\ state.transactions[2] # lastOp.record

\* C11: handleFormSubmit gets from validateTransaction an errors entry for
\* exactly the fields of the form whose own validator rejects them, each with
\* that validator's message, and goes on to save exactly when all four accept.
C11_AllFieldsChecked ==
    [][lastOp'.name = "handleFormSubmit"
       => /\ \A f \in DOMAIN dom.form :
                LET alone == validateSingleField(f, dom.form[f])
                IN  lastOp'.errors[f] = IF alone.valid THEN "" ELSE alone.message
          /\ lastOp'.ret # "invalid"
                <=> \A f \in DOMAIN dom.form : validateSingleField(f, dom.form[f]).valid]_vars

\* a submit refused with two fields at fault, both reported
C11_TwoErrorsAtOnce ==
    /\ lastOp.name = "handleFormSubmit"
    /\ lastOp.ret = "invalid"
    /\ lastOp.errors.description # ""
    /\ lastOp.errors.category # ""
    /\ lastOp.errors.amount = ""

\* The amount grammar, read one character at a time: "0" or a digit string
\* that does not start with "0", then nothing, or a point and one or two digits
AmountStep(q, c) ==
    CASE q = "start" /\ c = "0" -> "zero"
      [] q = "start" /\ IsDigit(c) /\ c # "0" -> "int"
      [] q = "int" /\ IsDigit(c) -> "int"
      [] q \in {"zero", "int"} /\ c = "." -> "point"
      [] q = "point" /\ IsDigit(c) -> "one"
      [] q = "one" /\ IsDigit(c) -> "two"
      [] OTHER -> "no"
RECURSIVE AmountRun(_, _)
AmountRun(q, s) == IF s = <<>> THEN q ELSE AmountRun(AmountStep(q, Head(s)), Tail(s))
InAmountGrammar(s) == AmountRun("start", s) \in {"zero", "int", "one", "two"}

IsLeapYear(y) == y % 4 = 0 /\ (y % 100 # 0 \/ y % 400 = 0)
DaysInMonth(y, m) ==
    IF m = 2 THEN (IF IsLeapYear(y) THEN 29 ELSE 28)
    ELSE IF m \in {4, 6, 9, 11} THEN 30 ELSE 31
IsCalendarDate(s) ==
    /\ Len(s) = 10
    /\ \A i \in {1, 2, 3, 4, 6, 7, 9, 10} : IsDigit(s[i])
    /\ s[5] = "-" /\ s[8] = "-"
    /\ LET y == DigitsToNat(SubSeq(s, 1, 4))
           m == DigitsToNat(SubSeq(s, 6, 7))
           d == DigitsToNat(SubSeq(s, 9, 10))
       IN  m \in 1..12 /\ d \in 1..DaysInMonth(y, m)

\* C13: validateDate accepts the text of the date field exactly when it is
\* YYYY-MM-DD with a month from 01 to 12 and a day that exists in that month of
\* that year, whatever the four-digit year.
C13_RealDatesOnly ==
    (lastOp.name = "validateSingleField" /\ lastOp.field = "date")
    => (lastOp.ret = "true" <=> IsCalendarDate(lastOp.text))

\* The sum of the amounts of the transactions of a category
CategorySum(category) ==
    LET InCategory(txn) == txn.category = category
    IN  SumAmounts(SelectSeq(state.transactions, InCategory))

\* C14: calculateStats reports as topCategory a category whose summed amount
\* no other category exceeds, the first one met in the collection when several
\* share that sum, and 'None' for an empty collection.
C14_TopCategory ==
    lastOp.name = "calculateStats"
    => IF state.transactions = <<>> THEN lastOp.stats.topCategory = None
       ELSE \E i \in 1..Len(state.transactions) :
                /\ state.transactions[i].category = lastOp.stats.topCategory
                /\ \A j \in 1..Len(state.transactions) :
                        CategorySum(state.transactions[j].category)
                            <= CategorySum(lastOp.stats.topCategory)
                /\ \A j \in 1..(i - 1) :
                        CategorySum(state.transactions[j].category)
                            < CategorySum(lastOp.stats.topCategory)

\* The ISO date of the clock: what getTodayDate gives as today's date
Today == HoursAt(now) \div 24
LastSevenDays == {ISODate(Today - i) : i \in 0..6}

\* C15: weekTotal is the sum of the amounts of the transactions dated on one
\* of the seven dates that end today; a later or an earlier date adds nothing.
C15_WeekTotal ==
    lastOp.name = "calculateStats"
    => LET InWeek(txn) == txn.date \in LastSevenDays
       IN  lastOp.stats.weekTotal = SumAmounts(SelectSeq(state.transactions, InWeek))

C17_BudgetLine ==
    lastOp.name = "renderBudgetCap"
    => LET cap == state.budgetCap
           spent == SumAmounts(state.transactions)
       IN  /\ cap > 0 =>
                /\ lastOp.capStatus.shown
                /\ lastOp.capStatus.remaining = cap - spent
                /\ lastOp.capStatus.className =
                      IF spent >= cap THEN "cap-status error"
                      ELSE IF 100 * spent >= 80 * cap THEN "cap-status warning"
                      ELSE "cap-status success"
           /\ cap = 0 => ~lastOp.capStatus.shown

\* a cap of 100 with 85 spent: a warning, 15 remaining
C17_WarningAt85 ==
    /\ lastOp.name = "renderBudgetCap"
    /\ state.budgetCap = 10000
    /\ SumAmounts(state.transactions) = 8500
    /\ lastOp.capStatus.className = "cap-status warning"
    /\ lastOp.capStatus.remaining = 1500

\* `part` holds the elements of `whole` that satisfy Keep, in their order
IsSelection(part, whole, Keep(_)) ==
    LET kept == {i \in 1..Len(whole) : Keep(whole[i])}
    IN  /\ Len(part) = Cardinality(kept)
        /\ \A k \in 1..Len(part) :
              \E i \in kept : /\ part[k] = whole[i]
                              /\ Cardinality({j \in kept : j < i}) = k - 1

\* C18: filterByCategory with the empty category returns the sequence it was
\* given; with another category it returns the records of exactly that
\* category, in their order; and the collection stays as it was.
C18_FilterByCategory ==
    [][lastOp'.name = "handleCategoryFilter"
       => LET category == state'.currentFilter.category
              OfCategory(txn) == txn.category = category
          IN  /\ state'.transactions = state.transactions
              /\ category = <<>> => lastOp'.filtered = state.transactions
              /\ category # <<>>
                    => IsSelection(lastOp'.filtered, state.transactions, OfCategory)]_vars

\* the filter is on a category no record carries, and then on none
C18_NoSuchCategory ==
    /\ lastOp.name = "handleCategoryFilter"
    /\ state.currentFilter.category = Gym
    /\ state.transactions # <<>>
    /\ lastOp.filtered = <<>>

\* C19: searchTransactions with no matcher returns every record; with one it
\* returns, in their order, the records of which the description, the amount
\* as a string, the category or the date matches; the collection stays as it
\* was; and a search text of nothing but spaces gives no matcher.
C19_SearchTransactions ==
    [][lastOp'.name = "handleSearch"
       => LET regex == state'.currentFilter.searchRegex
              Matches(txn) ==
                  \E text \in {txn.description, NumberToString(txn.amount),
                               txn.category, txn.date} : RegexTest(regex, text)
          IN  /\ state'.transactions = state.transactions
              /\ Trim(dom'.searchInput) = <<>> => regex.isNull
              /\ regex.isNull => lastOp'.searched = lastOp'.filtered
              /\ ~regex.isNull => IsSelection(lastOp'.searched, lastOp'.filtered, Matches)]_vars

\* a search that keeps one record for its date alone and drops another
C19_MatchesByDate ==
    /\ lastOp.name = "handleSearch"
    /\ dom.searchInput = <<"-", "1", "1">>
    /\ Len(lastOp.searched) = 1
    /\ Len(lastOp.filtered) = 2

\* The order a sort key states, over the records whose date is a date of the
\* calendar
InOrder(list, sortBy) ==
    \A i, j \in 1..Len(list) :
        i < j =>
            LET a == list[i]
                b == list[j]
                real == IsCalendarDate(a.date) /\ IsCalendarDate(b.date)
                dayA == DateParse(a.date, "rolls over").hours
                dayB == DateParse(b.date, "rolls over").hours
            IN  CASE sortBy = "date-desc" -> real => dayA >= dayB
                  [] sortBy = "date-asc" -> real => dayA <= dayB
                  [] sortBy = "desc-asc" -> localeCompare(a.description, b.description) <= 0
                  [] sortBy = "desc-desc" -> localeCompare(a.description, b.description) >= 0
                  [] sortBy = "amount-desc" -> a.amount >= b.amount
                  [] sortBy = "amount-asc" -> a.amount <= b.amount

\* C20: sortTransactions leaves the collection as it was and returns a
\* permutation of the sequence it was given, in the order of the key for the
\* six keys and in the order given for any other key.
C20_SortTransactions ==
    [][lastOp'.name = "handleSort"
       => LET sortBy == state'.currentFilter.sortBy
          IN  /\ state'.transactions = state.transactions
              /\ \E order \in Orders(Len(lastOp'.searched)) :
                    lastOp'.shown = [k \in 1..Len(lastOp'.searched) |->
                                        lastOp'.searched[order[k]]]
              /\ sortBy \in SortKeys => InOrder(lastOp'.shown, sortBy)
              /\ sortBy \notin SortKeys => lastOp'.shown = lastOp'.searched]_vars

\* C21: whenever no category list is stored, loadCategories returns the six
\* default categories, whatever was added, removed, cleared or loaded before.
C21_DefaultsWhenNothingStored ==
    ~localStorage.categories.has
    => loadCategories(localStorage, defaultCategories)
         = <<Food, Books, Transport, Entertainment, Fees, Other>>

\* C22: an import that succeeds puts each field of the bundle that is present
\* and of the right type in the place of the stored and of the in-memory
\* value, and leaves the stored and the in-memory value of every other field
\* as they were.
C22_ImportAppliesPresentFields ==
    [][(lastOp'.name = "handleImport" /\ lastOp'.ret = "success")
       => LET data == lastOp'.file
          IN  /\ IF data.transactions.t = "array"
                 THEN /\ state'.transactions = Records(data.transactions.v)
                      /\ localStorage'.transactions = Item(Records(data.transactions.v))
                 ELSE /\ state'.transactions = state.transactions
                      /\ localStorage'.transactions = localStorage.transactions
              /\ IF data.settings.t = "object"
                 THEN /\ state'.settings = data.settings.v
                      /\ localStorage'.settings = Item(data.settings.v)
                 ELSE /\ state'.settings = state.settings
                      /\ localStorage'.settings = localStorage.settings
              /\ IF data.categories.t = "array"
                 THEN /\ state'.categories = data.categories.v
                      /\ localStorage'.categories = Item(data.categories.v)
                 ELSE /\ state'.categories = state.categories
                      /\ localStorage'.categories = localStorage.categories
              /\ IF data.budgetCap.t = "number"
                 THEN /\ state'.budgetCap = data.budgetCap.v
                      /\ localStorage'.budgetCap = Item(NumberToString(data.budgetCap.v))
                 ELSE /\ state'.budgetCap = state.budgetCap
                      /\ localStorage'.budgetCap = localStorage.budgetCap]_vars

\* C28: clearAllData empties the transactions, sets the cap to 0 and
\* editingId to null, and keeps the categories and the settings that were in
\* effect: they are still in the state object, and still what the loaders
\* give when the state is loaded from storage again.
C28_ClearKeepsCategoriesAndSettings ==
    [][lastOp'.name = "clearAllData"
       => /\ state'.transactions = <<>>
          /\ state'.budgetCap = 0
          /\ state'.editingId = ""
          /\ state'.categories = state.categories
          /\ state'.settings = state.settings
          /\ loadCategories(localStorage', defaultCategories') = state.categories
          /\ loadSettings(localStorage') = state.settings]_vars

\* The position of the first record of the collection that carries the id
FirstWithId(transactions, id) ==
    {i \in 1..Len(transactions) :
        /\ transactions[i].id = id
        /\ \A j \in 1..(i - 1) : transactions[j].id # id}

\* C26: updateTransaction on an id of the collection puts the new record at
\* the position of the old one, with its id and its createdAt; every other
\* record and the length stay; on an id that is not there it returns null and
\* changes neither the collection nor the storage.
C26_UpdateInPlace ==
    [][lastOp'.name = "updateTransaction"
       => LET id == lastOp'.id
              present == \E i \in 1..Len(state.transactions) : state.transactions[i].id = id
          IN  /\ present =>
                    /\ lastOp'.ret = "record"
                    /\ Len(state'.transactions) = Len(state.transactions)
                    /\ \A i \in FirstWithId(state.transactions, id) :
                          /\ state'.transactions[i] = lastOp'.record
                          /\ state'.transactions[i].id = id
                          /\ state'.transactions[i].createdAt = state.transactions[i].createdAt
                          /\ \A j \in 1..Len(state.transactions) :
                                j # i => state'.transactions[j] = state.transactions[j]
              /\ ~present =>
                    /\ lastOp'.ret = "null"
                    /\ state'.transactions = state.transactions
                    /\ localStorage' = localStorage]_vars

\* a record that is not the first was updated later than it was created, and
\* the one before it stayed
C26_SecondRecordUpdated ==
    /\ lastOp.name = "updateTransaction"
    /\ lastOp.ret = "record"
    /\ Len(state.transactions) >= 2
    /\ state.transactions[2] = lastOp.record
    /\ lastOp.record.createdAt < lastOp.record.updatedAt

\* C27: deleteTransaction on an id of the collection removes the first record
\* that carries it and no other, keeps the rest in order and returns true; on
\* an id that is not there it returns false and changes neither the
\* collection nor the storage.
C27_DeleteFirstWithId ==
    [][lastOp'.name = "deleteTransaction"
       => LET id == lastOp'.id
              present == \E i \in 1..Len(state.transactions) : state.transactions[i].id = id
          IN  /\ present =>
                    /\ lastOp'.ret = "true"
                    /\ Len(state'.transactions) = Len(state.transactions) - 1
                    /\ \A i \in FirstWithId(state.transactions, id) :
                          \A k \in 1..Len(state'.transactions) :
                              state'.transactions[k] =
                                  state.transactions[IF k < i THEN k ELSE k + 1]
              /\ ~present =>
                    /\ lastOp'.ret = "false"
                    /\ state'.transactions = state.transactions
                    /\ localStorage' = localStorage]_vars

\* one of two records with the same id was deleted and the other is left
C27_TwinLeft ==
    /\ lastOp.name = "deleteTransaction"
    /\ lastOp.ret = "true"
    /\ \E i \in 1..Len(state.transactions) : state.transactions[i].id = lastOp.id

\* C29: when importData has returned success, the state object holds the
\* fields of the bundle that are present and of the right type, whether or
\* not a write was refused on the way.
C29_SuccessMeansImported ==
    (lastOp.name = "handleImport" /\ lastOp.ret = "success")
    => LET data == lastOp.file
       IN  /\ data.transactions.t = "array"
                => state.transactions = Records(data.transactions.v)
           /\ data.settings.t = "object" => state.settings = data.settings.v
           /\ data.categories.t = "array" => state.categories = data.categories.v
           /\ data.budgetCap.t = "number" => state.budgetCap = data.budgetCap.v

\* C30: a form submission that passes validateTransaction either puts one new
\* transaction in front of the collection (no edit in progress) or replaces
\* the transaction that editingId names, which is then one of the collection.
C30_SubmissionTakesEffect ==
    [][(lastOp'.name = "handleFormSubmit" /\ lastOp'.ret # "invalid")
       => IF state.editingId = ""
          THEN /\ Len(state'.transactions) = Len(state.transactions) + 1
               /\ state'.transactions[1] = lastOp'.record
               /\ Tail(state'.transactions) = state.transactions
          ELSE /\ lastOp'.ret = "record"
               /\ \E i \in 1..Len(state.transactions) :
                    /\ state.transactions[i].id = state.editingId
                    /\ state'.transactions[i] = lastOp'.record]_vars

\* C23: state.clearAllData is invoked only by a click on Clear All Data that
\* finds the button set confirming by an earlier click and not reset since,
\* and state.deleteTransaction only by a click on a Delete button that an
\* earlier click set confirming and nothing reset since; a click on a control
\* that is not confirming changes neither the state nor the storage.
C23_DestroysOnlyWhenConfirming ==
    [][/\ (lastOp'.name = "handleClearData" /\ lastOp'.ret = "cleared"
             => dom.clearClicked)
       /\ (lastOp'.name = "handleClearData" /\ ~dom.clearClicked
             => /\ state' = state
                /\ localStorage' = localStorage
                /\ lastOp'.ret = "confirming")
       /\ (lastOp'.name = "handleDeleteClick" /\ lastOp'.ret # "confirming"
             => lastOp'.position \in dom.deleteClicked)
       /\ (lastOp'.name = "handleDeleteClick" /\ lastOp'.position \notin dom.deleteClicked
             => /\ state' = state
                /\ localStorage' = localStorage
                /\ lastOp'.ret = "confirming")]_vars

\* A second click on a Delete button has removed a record and left another,
\* while Clear All Data waits for its second click
C23_ConfirmedDelete ==
    /\ lastOp.name = "handleDeleteClick"
    /\ lastOp.ret = "true"
    /\ state.transactions # <<>>
    /\ dom.deleteClicked = {}
    /\ dom.clearBtn.confirming
    /\ dom.clearClicked

\* C24: the Clear All Data button, once a click set it confirming, is reset
\* by nothing but a second click before 4 seconds have gone by since that click.
C24_ConfirmingForFourSeconds ==
    [][dom.clearBtn.confirming /\ ~dom'.clearBtn.confirming
         => \/ lastOp'.name = "handleClearData"
            \/ dom.armedFor >= CLEAR_CONFIRM_DELAY]_vars

\* C25: while input events to the search box come less than 200 ms apart the
\* timeout stays pending, due 200 ms after the last of them, and no input
\* event recomputes the search; when the timeout fires, 200 ms after the last
\* event, handleSearch runs once and leaves in currentFilter.searchRegex the
\* matcher compiled from the content of the box and the case checkbox.
C25_Debounce ==
    /\ [](dom.burst = "open"
            => dom.searchDelay /\ dom.sinceInput + dom.searchDue = SEARCH_DELAY)
    /\ [][/\ (lastOp'.name = "searchInput"
                => /\ state' = state
                   /\ dom'.searchDelay
                   /\ dom'.searchInput = lastOp'.text)
          /\ (dom.searchDelay /\ ~dom'.searchDelay
                => /\ dom.burst = "open"
                   /\ dom.sinceInput = SEARCH_DELAY
                   /\ dom'.burst = "done"
                   /\ lastOp'.name = "handleSearch"
                   /\ dom'.searchInput = dom.searchInput
                   /\ state'.currentFilter.searchRegex
                        = compileRegex(dom'.searchInput, dom'.searchCase))]_vars

\* The timeout has fired after a burst whose events replaced the content of
\* the box, and the search shows the records the final content matches
C25_OneRecompute ==
    /\ dom.burst = "done"
    /\ dom.restarted
    /\ lastOp.name = "handleSearch"
    /\ dom.searchInput # <<>>
    /\ state.currentFilter.searchRegex = compileRegex(dom.searchInput, dom.searchCase)
    /\ lastOp.searched # <<>>
    /\ Len(lastOp.searched) < Len(state.transactions)

====
